---------------------------- MODULE Spec2Model ----------------------------
(***************************************************************************)
(* next-cachex: the single-flight fetch orchestrator of                    *)
(* src/cache/createCacheHandler.ts running over the in-process backend     *)
(* (MemoryCacheBackend).  Strings that the code composes (full keys, lock  *)
(* keys, stale keys) are sequences of one-character strings, times are     *)
(* milliseconds as returned by Date.now(), TTLs are seconds as in the      *)
(* source.  A backend call may also throw, as the Redis backend does on a  *)
(* transport failure.                                                      *)
(***************************************************************************)
EXTENDS Integers, Sequences, FiniteSets, TLC

(* ------------------------------ bounds -------------------------------- *)

\* number of fetch calls issued on the handler
MaxCalls == 2

\* number of clock advances
MaxTicks == 2

\* milliseconds by which one clock advance moves Date.now()
Quantum == 1000

\* number of operations a client makes on the backend itself
MaxOps == 4

\* number of clock advances while a poll timer is pending
MaxTimerTicks == 11

Calls == 1..MaxCalls

(* --------------------------- input domains ---------------------------- *)

\* logical keys passed to fetch
Keys == { <<"a">> }

\* undefined, which the CacheBackend interface reserves for "absent"
Undefined == -1

\* the value the fetcher passed to call c resolves to when it succeeds
\* (a number other than undefined, different for every call)
FetcherValue(c) == 40 + c

\* the options argument of fetch: omitted (all defaults), short ttl and
\* lockTimeout with a staleTtl that is not greater than ttl, or a
\* lockTimeout of 0 only
OptionChoices ==
  { [ttl |-> 0, lockTimeout |-> 0, staleTtl |-> 0, given |-> {}],
    [ttl |-> 1, lockTimeout |-> 500, staleTtl |-> 1,
       given |-> {"ttl", "lockTimeout", "staleTtl"}],
    [ttl |-> 0, lockTimeout |-> 0, staleTtl |-> 0,
       given |-> {"lockTimeout"}] }

\* logical keys and options of fetch calls that differ in their keys and in
\* every option: all defaults; no primary expiry with a stale TTL and a
\* lockTimeout of a whole second; TTLs of 1 s and 2 s with the shortest
\* lockTimeout; a lockTimeout just above a whole second
OptionKeys == { <<"a">>, <<"b">> }

WideOptionChoices ==
  { [ttl |-> 0, lockTimeout |-> 0, staleTtl |-> 0, given |-> {}],
    [ttl |-> 0, lockTimeout |-> 1000, staleTtl |-> 1,
       given |-> {"ttl", "lockTimeout", "staleTtl"}],
    [ttl |-> 1, lockTimeout |-> 1, staleTtl |-> 2,
       given |-> {"ttl", "lockTimeout", "staleTtl"}],
    [ttl |-> 0, lockTimeout |-> 1001, staleTtl |-> 0,
       given |-> {"lockTimeout"}] }

\* keys, lock TTLs (seconds), values and entry TTLs (seconds, 0 for none)
\* that a client passes to the backend itself
DirectKeys == { <<"x">>, <<"y">> }

DirectLockTtls == {0, 1, 2}

\* null, a value other than undefined that is falsy like 0
Null == -2

DirectValues == {0}

\* values that a client writes to a primary key between fetch calls
SeedValues == {0, Null}

DirectTtls == {0, 1, 2}

\* prefix and version options of createCacheHandler and logical keys, as
\* passed by a client that only composes keys: empty, short, with the
\* delimiter inside, the ones the tests use, and a logical key that begins
\* like a stale key
PrefixChoices ==
  { <<>>, <<"a">>, <<"a", "p", "p">>, <<"m", "y", "a", "p", "p">> }

VersionChoices == { <<>>, <<"a">>, <<"v", "1">>, <<"v", "2">> }

KeyChoices ==
  { <<>>, <<"b">>, <<"a", ":", "b">>, <<"p", "o", "s", "t", "s">>,
    <<"m", "y", "k", "e", "y">>, <<"s", "t", "a", "l", "e", ":", "b">> }

\* items passed to registerInitialCache: { key, value, options } with
\* options omitted, ttl only, staleTtl above, equal to and below ttl, and
\* staleTtl only
RegisterItems ==
  { [key |-> <<"a">>, value |-> 0, ttl |-> 0, staleTtl |-> 0, given |-> {}],
    [key |-> <<"a">>, value |-> 0, ttl |-> 1, staleTtl |-> 0,
       given |-> {"ttl"}],
    [key |-> <<"b">>, value |-> Null, ttl |-> 1, staleTtl |-> 2,
       given |-> {"ttl", "staleTtl"}],
    [key |-> <<"a">>, value |-> Null, ttl |-> 1, staleTtl |-> 1,
       given |-> {"ttl", "staleTtl"}],
    [key |-> <<"b">>, value |-> 0, ttl |-> 2, staleTtl |-> 1,
       given |-> {"ttl", "staleTtl"}],
    [key |-> <<"b">>, value |-> 0, ttl |-> 0, staleTtl |-> 1,
       given |-> {"staleTtl"}] }

\* the items argument: null, undefined, or an array of up to two items
\* (two items: one for key "a" followed by one for key "b")
ItemLists ==
  { [kind |-> "null", list |-> <<>>], [kind |-> "undefined", list |-> <<>>],
    [kind |-> "array", list |-> <<>>] }
  \cup { [kind |-> "array", list |-> <<i>>] : i \in RegisterItems }
  \cup { [kind |-> "array", list |-> <<i, j>>] :
           i \in {x \in RegisterItems : x.key = <<"a">>},
           j \in {x \in RegisterItems : x.key = <<"b">>} }

(* ------------------------ program constants --------------------------- *)

DEFAULT_FETCH_OPTIONS == [ttl |-> 300, lockTimeout |-> 5000, staleTtl |-> 3600]

L1_CACHE_TTL == 1000

maxPollInterval == 500

Min(a, b) == IF a <= b THEN a ELSE b

\* Math.ceil(n / 1000) for an integer n >= 0
CeilDiv1000(n) == (n + 999) \div 1000

(* ------------------------------ state --------------------------------- *)

VARIABLES
  now,              \* Date.now()
  prefix,           \* handler option
  version,          \* handler option
  fallbackToStale,  \* handler option
  store,            \* MemoryCacheBackend.store : key -> {value, expiresAt}
  locks,            \* MemoryCacheBackend.locks : key -> {expiresAt}
  l1Cache,          \* handler's l1Cache : fullKey -> {value, expiresAt}
  calls,            \* per fetch call: position, locals, outcome, history
  direct            \* the last operation a client made on the backend itself

vars == <<now, prefix, version, fallbackToStale, store, locks, l1Cache,
          calls, direct>>

(* --------------------------- key composer ----------------------------- *)

RECURSIVE Join(_, _)
Join(parts, sep) ==
  IF Len(parts) = 0 THEN <<>>
  ELSE IF Len(parts) = 1 THEN parts[1]
  ELSE parts[1] \o sep \o Join(Tail(parts), sep)

\* a composer that joins all three segments, empty ones included
FullKeyOfNoFilter(p, v, key) == Join(<<p, v, key>>, <<":">>)

\* a composer that leaves the version out of the key
FullKeyOfNoVersion(p, v, key) ==
  Join(SelectSeq(<<p, key>>, LAMBDA s : s # <<>>), <<":">>)

\* [prefix, version, key].filter(Boolean).join(':')
FullKeyOf(p, v, key) ==
  Join(SelectSeq(<<p, v, key>>, LAMBDA s : s # <<>>), <<":">>)

getFullKey(key) == FullKeyOf(prefix, version, key)

\* one lock key for all keys of the handler
LockKeyOfHandler(fullKey) == <<"l", "o", "c", "k">>

LockKeyOf(fullKey) == <<"l", "o", "c", "k", ":">> \o fullKey

\* a stale copy kept under the full key itself
StaleKeyOfNoMarker(fullKey) == fullKey

StaleKeyOf(fullKey) == <<"s", "t", "a", "l", "e", ":">> \o fullKey

(* ---------------------- MemoryCacheBackend ---------------------------- *)

MapSet(m, k, e) == [x \in (DOMAIN m) \cup {k} |-> IF x = k THEN e ELSE m[x]]

MapDel(m, k) == [x \in (DOMAIN m) \ {k} |-> m[x]]

EmptyMap == [x \in {} |-> 0]

\* expiry one instant early: Date.now() >= item.expiresAt
StoreExpiredAtInstant(st, key, t) ==
  key \in DOMAIN st /\ st[key].expiresAt # 0 /\ t >= st[key].expiresAt

\* an entry whose expiry instant has passed (expiresAt 0 is "undefined")
StoreExpired(st, key, t) ==
  key \in DOMAIN st /\ st[key].expiresAt # 0 /\ t > st[key].expiresAt

\* value returned by get(key)
BackendGet(st, key, t) ==
  IF key \notin DOMAIN st THEN Undefined
  ELSE IF StoreExpired(st, key, t) THEN Undefined
  ELSE st[key].value

\* store after get(key): an expired entry is evicted
StoreAfterGet(st, key, t) ==
  IF StoreExpired(st, key, t) THEN MapDel(st, key) ELSE st

\* set(key, value, {ttl}) that adds the ttl as if it were milliseconds
BackendSetTtlInMs(st, key, value, ttl, t) ==
  MapSet(st, key, [value |-> value,
                   expiresAt |-> IF ttl # 0 THEN t + ttl ELSE 0])

\* store after set(key, value, {ttl})
BackendSet(st, key, value, ttl, t) ==
  MapSet(st, key, [value |-> value,
                   expiresAt |-> IF ttl # 0 THEN t + ttl * 1000 ELSE 0])

BackendDel(st, key) == MapDel(st, key)

\* lock(key, ttl) for which an entry counts until something removes it
BackendLockUntilSwept(lk, key, t) == key \notin DOMAIN lk

\* lock(key, ttl) that overwrites an existing entry without looking at it
BackendLockNoCheck(lk, key, t) == TRUE

\* result of lock(key, ttl)
BackendLock(lk, key, t) ==
  ~ (key \in DOMAIN lk /\ lk[key].expiresAt > t)

\* a lock entry whose expiry adds the ttl as if it were milliseconds
LocksAfterLockInMs(lk, key, ttl, t, owner) ==
  MapSet(lk, key, [expiresAt |-> t + ttl, owner |-> owner])

\* locks after a successful lock(key, ttl); owner is history only
LocksAfterLock(lk, key, ttl, t, owner) ==
  MapSet(lk, key, [expiresAt |-> t + ttl * 1000, owner |-> owner])

\* unlock(key) that leaves the entry in place until it expires
BackendUnlockKeeps(lk, key) == lk

\* unlock(key) that releases every lock
BackendUnlockAll(lk, key) == EmptyMap

BackendUnlock(lk, key) == MapDel(lk, key)


\* store after cleanup(): entries with expiresAt <= now are dropped
BackendCleanupStore(st, t) ==
  [k \in {x \in DOMAIN st :
            ~ (st[x].expiresAt # 0 /\ st[x].expiresAt <= t)} |-> st[k]]

\* locks after cleanup(): lock entries with expiresAt <= now are dropped
BackendCleanupLocks(lk, t) ==
  [k \in {x \in DOMAIN lk : ~ (lk[x].expiresAt <= t)} |-> lk[k]]

(* ------------------------------ errors -------------------------------- *)

NoError ==
  [name |-> "none", key |-> <<>>, timeout |-> 0, cause |-> "", id |-> 0]

\* the backend's own error rethrown without the handler's wrapper
CacheBackendErrorUnwrapped(op) ==
  [name |-> "BackendThrown", key |-> <<>>, timeout |-> 0, cause |-> op,
   id |-> 0]

\* new CacheBackendError(`Failed to ...`, cause)
CacheBackendError(op) ==
  [name |-> "CacheBackendError", key |-> <<>>, timeout |-> 0, cause |-> op,
   id |-> 0]

\* a timeout error whose message names the namespaced key
CacheTimeoutErrorOfFullKey(key, lockTimeout) ==
  [name |-> "CacheTimeoutError", key |-> getFullKey(key),
   timeout |-> lockTimeout, cause |-> "", id |-> 0]

\* new CacheTimeoutError(`Timeout waiting for ${key} (${lockTimeout}ms)`)
CacheTimeoutError(key, lockTimeout) ==
  [name |-> "CacheTimeoutError", key |-> key, timeout |-> lockTimeout,
   cause |-> "", id |-> 0]

\* the error object a throwing backend call raises
BackendThrown(op) ==
  [name |-> "BackendThrown", key |-> <<>>, timeout |-> 0, cause |-> op,
   id |-> 0]

\* new Error('Cache backend does not support the clear operation')
UnsupportedClearError ==
  [name |-> "Error", key |-> <<>>, timeout |-> 0, cause |-> "clear",
   id |-> 0]

\* the error object the fetcher of call c rejects with
OriginError(c) ==
  [name |-> "OriginError", key |-> <<>>, timeout |-> 0, cause |-> "fetcher",
   id |-> c]

(* --------------------------- fetch: locals ---------------------------- *)

\* { ...DEFAULT_FETCH_OPTIONS, ...options }
MergeOptions(o) ==
  [f \in {"ttl", "lockTimeout", "staleTtl"} |->
     IF f \in o.given THEN o[f] ELSE DEFAULT_FETCH_OPTIONS[f]]

\* l1Item && l1Item.expiresAt > Date.now()
L1Fresh(l1, fullKey, t) ==
  fullKey \in DOMAIN l1 /\ l1[fullKey].expiresAt > t

\* the test of the cached value turned around
IsCachedInverted(cached) == cached = Undefined

\* cached !== undefined
IsCached(cached) == cached # Undefined

\* a lock TTL that rounds the seconds down
LockTtlFloor(lockTimeout) == lockTimeout \div 1000

\* second argument of backend.lock
LockTtl(lockTimeout) == CeilDiv1000(lockTimeout)

\* a stale write that also fires when staleTtl equals ttl
ShouldWriteStaleGe(fb, ttl, staleTtl) == fb /\ staleTtl # 0 /\ staleTtl >= ttl

\* fallbackToStale && staleTtl && staleTtl > ttl
ShouldWriteStale(fb, ttl, staleTtl) == fb /\ staleTtl # 0 /\ staleTtl > ttl

\* fallbackToStale && staleTtl
ShouldReadStale(fb, staleTtl) == fb /\ staleTtl # 0

\* a loop condition that admits one more turn at the deadline itself
KeepWaitingInclusive(t, startTime, lockTimeout) == t - startTime <= lockTimeout

\* Date.now() - startTime < lockTimeout
KeepWaiting(t, startTime, lockTimeout) == t - startTime < lockTimeout

\* a back-off that doubles the delay
NextPollIntervalDoubling(p) == Min(p * 2, maxPollInterval * 16)

\* Math.min(pollInterval * 1.5, maxPollInterval), in sixteenths of a ms
NextPollInterval(p) == Min((p * 3) \div 2, maxPollInterval * 16)

\* the setTimeout(resolve, pollInterval) started at sleepFrom has fired
SleepOver(t, sleepFrom, p) == (t - sleepFrom) * 16 >= p

Event(type, key) == [type |-> type, key |-> key]

IdleCall ==
  [pc |-> "idle", key |-> <<>>, ttl |-> 0, staleTtl |-> 0, lockTimeout |-> 0,
   ret |-> "none", value |-> Undefined, error |-> NoError,
   startTime |-> 0, pollInterval |-> 0, sleepFrom |-> 0,
   events |-> <<>>,
   \* history of the call, not read by the program
   initial |-> "none", lockResult |-> "none", origin |-> "none",
   originValue |-> Undefined, origins |-> 0, lockCalls |-> 0,
   unlockCalls |-> 0, setCalls |-> 0, staleRead |-> FALSE,
   faulted |-> FALSE, overlap |-> {},
   freshMiss |-> FALSE, staleAtStart |-> Undefined,
   lockExpiresAt |-> 0, outlived |-> FALSE]

\* no direct backend operation made yet; held, written and composed are
\* history only: for every key the last successful lock that no unlock or
\* clear has followed, the last set that no del or clear has followed, and
\* the last two getFullKey calls with their results, newest first
NoOp ==
  [n |-> 0, op |-> "none", key |-> <<>>, ttl |-> 0, acquired |-> FALSE,
   value |-> Undefined, held |-> EmptyMap, written |-> EmptyMap,
   composed |-> <<>>,
   \* the argument of the last instrumentation call, the backend calls it
   \* made, in order, and the error it threw
   items |-> [kind |-> "undefined", list |-> <<>>], trace |-> <<>>,
   error |-> NoError]

InFlight(c) == calls[c].pc \notin {"idle", "done"}

FullKey(c) == getFullKey(calls[c].key)

Init ==
  /\ now = Quantum
  /\ prefix = <<"p">>
  /\ version = <<>>
  /\ fallbackToStale \in BOOLEAN
  /\ store = EmptyMap
  /\ locks = EmptyMap
  /\ l1Cache = EmptyMap
  /\ calls = [c \in Calls |-> IdleCall]
  /\ direct = NoOp

Config == <<prefix, version, fallbackToStale>>

\* the promise of the call settles; its locals go out of scope
Settle(r) ==
  [r EXCEPT !.pc = "done", !.ttl = 0, !.staleTtl = 0, !.lockTimeout = 0,
            !.startTime = 0, !.pollInterval = 0, !.sleepFrom = 0,
            !.lockExpiresAt = 0, !.freshMiss = FALSE,
            !.staleAtStart = Undefined]

\* the call returns value v
Return(r, v) == Settle([r EXCEPT !.ret = "value", !.value = v])

\* the call throws error e
Throw(r, e) == Settle([r EXCEPT !.ret = "error", !.error = e])

\* a wait loop that falls through and resolves with undefined
WaitTimedOutSilent(r) == Return(r, Undefined)

\* the wait loop has ended without a value: throw new CacheTimeoutError
WaitTimedOut(r) == Throw(r, CacheTimeoutError(r.key, r.lockTimeout))

(* ---------------------------- fetch: steps ---------------------------- *)

\* fetch(key, fetcher, options) up to the first await: L1 lookup
FetchStart(c, key, o) ==
  /\ calls[c].pc = "idle"
  /\ \A d \in Calls : d < c => calls[d].pc # "idle"
  /\ LET fullKey == getFullKey(key)
         opt == MergeOptions(o)
         running == {d \in Calls : InFlight(d)}
         r0 == [calls[c] EXCEPT !.key = key, !.ttl = opt.ttl,
                  !.staleTtl = opt.staleTtl,
                  !.lockTimeout = opt.lockTimeout,
                  !.overlap = running,
                  !.freshMiss =
                     /\ ~ IsCached(BackendGet(store, fullKey, now))
                     /\ BackendLock(locks, LockKeyOf(fullKey), now),
                  !.staleAtStart =
                     BackendGet(store, StaleKeyOf(fullKey), now)]
         r1 == IF L1Fresh(l1Cache, fullKey, now)
               THEN Return([r0 EXCEPT
                       !.events = Append(@, Event("HIT", fullKey)),
                       !.initial = "l1"], l1Cache[fullKey].value)
               ELSE [r0 EXCEPT !.pc = "get"]
     IN calls' = [d \in Calls |->
                    IF d = c THEN r1
                    ELSE IF d \in running
                         THEN [calls[d] EXCEPT !.overlap = @ \cup {c}]
                         ELSE calls[d]]
  /\ UNCHANGED <<now, prefix, version, fallbackToStale, direct, store, locks,
                 l1Cache>>

\* await backend.get(fullKey) and the code up to backend.lock
InitialGet(c) ==
  /\ calls[c].pc = "get"
  /\ LET fullKey == FullKey(c)
         r == calls[c]
     IN \/ /\ calls' = [calls EXCEPT ![c] =
                 Throw([r EXCEPT !.initial = "fail", !.faulted = TRUE],
                       CacheBackendError("get"))]
           /\ UNCHANGED <<store, l1Cache>>
        \/ /\ LET cached == BackendGet(store, fullKey, now)
              IN IF IsCached(cached)
                 THEN /\ l1Cache' = MapSet(l1Cache, fullKey,
                            [value |-> cached,
                             expiresAt |-> now + L1_CACHE_TTL])
                      /\ calls' = [calls EXCEPT ![c] =
                            Return([r EXCEPT
                              !.events = Append(@, Event("HIT", fullKey)),
                              !.initial = "hit"], cached)]
                 ELSE /\ l1Cache' = l1Cache
                      /\ calls' = [calls EXCEPT ![c] =
                            [r EXCEPT
                              !.events = Append(@, Event("MISS", fullKey)),
                              !.initial = "miss", !.pc = "lock"]]
           /\ store' = StoreAfterGet(store, fullKey, now)
  /\ UNCHANGED <<now, prefix, version, fallbackToStale, direct, locks>>

\* await backend.lock(lockKey, ...) and the code up to the next await:
\* LOCK and the fetcher invocation, or WAIT and the first sleep
AcquireLock(c) ==
  /\ calls[c].pc = "lock"
  /\ LET fullKey == FullKey(c)
         lockKey == LockKeyOf(fullKey)
         r == [calls[c] EXCEPT !.lockCalls = @ + 1]
     IN \/ /\ calls' = [calls EXCEPT ![c] =
                 Throw([r EXCEPT !.lockResult = "fail", !.faulted = TRUE],
                       CacheBackendError("lock"))]
           /\ UNCHANGED locks
        \/ /\ IF BackendLock(locks, lockKey, now)
              THEN /\ locks' = LocksAfterLock(locks, lockKey,
                                   LockTtl(r.lockTimeout), now, c)
                   /\ calls' = [calls EXCEPT ![c] =
                         [r EXCEPT
                           !.events = Append(@, Event("LOCK", lockKey)),
                           !.lockResult = "acquired",
                           !.lockExpiresAt =
                              now + LockTtl(r.lockTimeout) * 1000,
                           !.origins = @ + 1,
                           !.pc = "origin"]]
              ELSE /\ locks' = locks
                   /\ LET w == [r EXCEPT
                             !.events = Append(@, Event("WAIT", lockKey)),
                             !.lockResult = "busy",
                             !.startTime = now,
                             !.pollInterval = 50 * 16]
                      IN calls' = [calls EXCEPT ![c] =
                           IF KeepWaiting(now, w.startTime, w.lockTimeout)
                           THEN [w EXCEPT !.pc = "sleep", !.sleepFrom = now]
                           ELSE WaitTimedOut(w)]
  /\ UNCHANGED <<now, prefix, version, fallbackToStale, direct, store, l1Cache>>

\* a catch block that rethrows without a finally block behind it
CatchBlockNoFinally(r, fullKey, err) ==
  LET e == [r EXCEPT !.events = Append(@, Event("ERROR", fullKey)),
                     !.ret = "error", !.error = err]
  IN IF ShouldReadStale(fallbackToStale, r.staleTtl)
     THEN [e EXCEPT !.pc = "staleGet"]
     ELSE Settle(e)

\* a catch block that replaces the caught error by a wrapping backend error
CatchBlockWrapping(r, fullKey, err) ==
  LET e == [r EXCEPT !.events = Append(@, Event("ERROR", fullKey)),
                     !.ret = "error", !.error = CacheBackendError("fetch")]
  IN IF ShouldReadStale(fallbackToStale, r.staleTtl)
     THEN [e EXCEPT !.pc = "staleGet"]
     ELSE [e EXCEPT !.pc = "unlock"]

\* the catch block up to its first await: ERROR, then the stale lookup or
\* the rethrow (which first runs the finally block)
CatchBlock(r, fullKey, err) ==
  LET e == [r EXCEPT !.events = Append(@, Event("ERROR", fullKey)),
                     !.ret = "error", !.error = err]
  IN IF ShouldReadStale(fallbackToStale, r.staleTtl)
     THEN [e EXCEPT !.pc = "staleGet"]
     ELSE [e EXCEPT !.pc = "unlock"]

\* await fetcher(): the origin function settles
FetcherReturn(c) ==
  /\ calls[c].pc = "origin"
  /\ LET fullKey == FullKey(c)
         r == calls[c]
     IN \/ calls' = [calls EXCEPT ![c] =
             [r EXCEPT !.origin = "ok", !.originValue = FetcherValue(c),
                       !.value = FetcherValue(c), !.pc = "set"]]
        \/ calls' = [calls EXCEPT ![c] =
             CatchBlock([r EXCEPT !.origin = "fail"], fullKey,
                        OriginError(c))]
  /\ UNCHANGED <<now, prefix, version, fallbackToStale, direct, store, locks,
                 l1Cache>>

\* await backend.set(fullKey, value, {ttl}) and the L1 write
PrimarySet(c) ==
  /\ calls[c].pc = "set"
  /\ LET fullKey == FullKey(c)
         r == [calls[c] EXCEPT !.setCalls = @ + 1]
     IN \/ /\ calls' = [calls EXCEPT ![c] =
                 CatchBlock([r EXCEPT !.faulted = TRUE], fullKey,
                            BackendThrown("set"))]
           /\ UNCHANGED <<store, l1Cache>>
        \/ /\ store' = BackendSet(store, fullKey, r.value, r.ttl, now)
           /\ l1Cache' = MapSet(l1Cache, fullKey,
                                [value |-> r.value,
                                 expiresAt |-> now + L1_CACHE_TTL])
           /\ calls' = [calls EXCEPT ![c] =
                 IF ShouldWriteStale(fallbackToStale, r.ttl, r.staleTtl)
                 THEN [r EXCEPT !.pc = "staleSet"]
                 ELSE [r EXCEPT !.pc = "unlock", !.ret = "value"]]
  /\ UNCHANGED <<now, prefix, version, fallbackToStale, direct, locks>>

\* a stale write failure that is treated like a failure of the fetcher
StaleSetFailedThrows(r, staleKey) ==
  [r EXCEPT !.faulted = TRUE,
            !.events = Append(@, Event("ERROR", staleKey)),
            !.ret = "error", !.error = BackendThrown("set")]

\* catch (staleError): the failure is logged under the stale key, no throw
StaleSetFailed(r, staleKey) ==
  [r EXCEPT !.faulted = TRUE,
            !.events = Append(@, Event("ERROR", staleKey))]

\* await backend.set(staleKey, value, {ttl: staleTtl}), errors only logged
StaleSet(c) ==
  /\ calls[c].pc = "staleSet"
  /\ LET staleKey == StaleKeyOf(FullKey(c))
         r == [calls[c] EXCEPT !.setCalls = @ + 1, !.pc = "unlock",
                               !.ret = "value"]
     IN \/ /\ calls' = [calls EXCEPT ![c] = StaleSetFailed(r, staleKey)]
           /\ UNCHANGED store
        \/ /\ store' = BackendSet(store, staleKey, r.value, r.staleTtl, now)
           /\ calls' = [calls EXCEPT ![c] = r]
  /\ UNCHANGED <<now, prefix, version, fallbackToStale, direct, locks, l1Cache>>

\* await backend.get(staleKey) in the catch block
StaleGet(c) ==
  /\ calls[c].pc = "staleGet"
  /\ LET staleKey == StaleKeyOf(FullKey(c))
         r == [calls[c] EXCEPT !.pc = "unlock", !.staleRead = TRUE]
     IN \/ /\ calls' = [calls EXCEPT ![c] =
                 [r EXCEPT !.faulted = TRUE,
                           !.events = Append(@, Event("ERROR", staleKey))]]
           /\ UNCHANGED store
        \/ /\ LET staleValue == BackendGet(store, staleKey, now)
              IN calls' = [calls EXCEPT ![c] =
                   IF IsCached(staleValue)
                   THEN [r EXCEPT
                          !.events = Append(@, Event("HIT", staleKey)),
                          !.ret = "value", !.value = staleValue,
                          !.error = NoError]
                   ELSE r]
           /\ store' = StoreAfterGet(store, staleKey, now)
  /\ UNCHANGED <<now, prefix, version, fallbackToStale, direct, locks, l1Cache>>

\* an unlock failure that escapes the finally block as the call's error
UnlockFailedThrows(r, lockKey) ==
  [r EXCEPT !.faulted = TRUE,
            !.events = Append(@, Event("ERROR", lockKey)),
            !.ret = "error", !.error = CacheBackendError("unlock")]

\* catch (unlockError): the failure is logged under the lock key, no throw
UnlockFailed(r, lockKey) ==
  [r EXCEPT !.faulted = TRUE,
            !.events = Append(@, Event("ERROR", lockKey))]

\* finally: await backend.unlock(lockKey), errors only logged; then the
\* call settles with the pending value or error
Unlock(c) ==
  /\ calls[c].pc = "unlock"
  /\ LET lockKey == LockKeyOf(FullKey(c))
         r == Settle([calls[c] EXCEPT
                        !.unlockCalls = @ + 1,
                        !.outlived = (now >= calls[c].lockExpiresAt)])
     IN \/ /\ calls' = [calls EXCEPT ![c] = UnlockFailed(r, lockKey)]
           /\ UNCHANGED locks
        \/ /\ locks' = BackendUnlock(locks, lockKey)
           /\ calls' = [calls EXCEPT ![c] = r]
  /\ UNCHANGED <<now, prefix, version, fallbackToStale, direct, store, l1Cache>>

\* a poll failure that becomes the pending error of the call
PollFailedThrows(r, fullKey) ==
  [r EXCEPT !.faulted = TRUE,
            !.events = Append(@, Event("ERROR", fullKey)),
            !.ret = "error", !.error = BackendThrown("get")]

\* catch (error) in the wait loop: the failure is logged, polling goes on
PollFailed(r, fullKey) ==
  [r EXCEPT !.faulted = TRUE,
            !.events = Append(@, Event("ERROR", fullKey))]

\* one turn of the wait loop: the sleep ends, await backend.get(fullKey),
\* the back-off, and the loop condition
Poll(c) ==
  /\ calls[c].pc = "sleep"
  /\ SleepOver(now, calls[c].sleepFrom, calls[c].pollInterval)
  /\ LET fullKey == FullKey(c)
         r == calls[c]
         again(q) ==
           LET n == [q EXCEPT !.pollInterval = NextPollInterval(@)]
           IN IF KeepWaiting(now, n.startTime, n.lockTimeout)
              THEN [n EXCEPT !.sleepFrom = now]
              ELSE WaitTimedOut(n)
     IN \/ /\ calls' = [calls EXCEPT ![c] = again(PollFailed(r, fullKey))]
           /\ UNCHANGED store
        \/ /\ LET value == BackendGet(store, fullKey, now)
              IN calls' = [calls EXCEPT ![c] =
                   IF IsCached(value) THEN Return(r, value) ELSE again(r)]
           /\ store' = StoreAfterGet(store, fullKey, now)
  /\ UNCHANGED <<now, prefix, version, fallbackToStale, direct, locks, l1Cache>>

(* -------------------------- the environment --------------------------- *)

\* the clock advances
Tick ==
  /\ now < Quantum * (MaxTicks + 1)
  /\ now' = now + Quantum
  /\ UNCHANGED <<prefix, version, fallbackToStale, direct, store, locks, l1Cache,
                 calls>>

\* setInterval(cleanupL1Cache, 5000)
cleanupL1Cache ==
  /\ \E k \in DOMAIN l1Cache : l1Cache[k].expiresAt <= now
  /\ l1Cache' = [k \in {x \in DOMAIN l1Cache : l1Cache[x].expiresAt > now}
                   |-> l1Cache[k]]
  /\ UNCHANGED <<now, prefix, version, fallbackToStale, direct, store, locks,
                 calls>>

\* the primary entry is removed between fetch calls, as the tests do with
\* await backend.del(fullKey)
ExtDel(key) ==
  /\ getFullKey(key) \in DOMAIN store
  /\ \A c \in Calls : ~ InFlight(c)
  /\ store' = BackendDel(store, getFullKey(key))
  /\ UNCHANGED <<now, prefix, version, fallbackToStale, direct, locks, l1Cache,
                 calls>>

\* a value is written to the primary key between fetch calls, as the tests
\* do with await backend.set(fullKey, value)
ExtSet(key, value) ==
  /\ \A c \in Calls : ~ InFlight(c)
  /\ BackendGet(store, getFullKey(key), now) # value
  /\ store' = BackendSet(store, getFullKey(key), value, 0, now)
  /\ UNCHANGED <<now, prefix, version, fallbackToStale, direct, locks, l1Cache,
                 calls>>

Next ==
  \/ \E c \in Calls, key \in Keys, o \in OptionChoices : FetchStart(c, key, o)
  \/ \E c \in Calls : InitialGet(c)
  \/ \E c \in Calls : AcquireLock(c)
  \/ \E c \in Calls : FetcherReturn(c)
  \/ \E c \in Calls : PrimarySet(c)
  \/ \E c \in Calls : StaleSet(c)
  \/ \E c \in Calls : StaleGet(c)
  \/ \E c \in Calls : Unlock(c)
  \/ \E c \in Calls : Poll(c)
  \/ Tick
  \/ cleanupL1Cache
  \/ \E key \in Keys : ExtDel(key)
  \/ \E key \in Keys, value \in SeedValues : ExtSet(key, value)

Spec == Init /\ [][Next]_vars

\* the next step of call c: the promise it awaits settles
CallStep(c) ==
  \/ InitialGet(c)
  \/ AcquireLock(c)
  \/ FetcherReturn(c)
  \/ PrimarySet(c)
  \/ StaleSet(c)
  \/ StaleGet(c)
  \/ Unlock(c)
  \/ Poll(c)

\* every backend call and every origin call settles, timers fire and the
\* clock advances
FairSpec ==
  /\ Spec
  /\ \A c \in Calls : WF_vars(CallStep(c))
  /\ WF_vars(Tick)

(* ------------------------ fetch: the wait loop ------------------------ *)

\* while a poll timer is pending the clock advances by the longest delay
\* between two polls
TimerTick ==
  /\ \E c \in Calls : calls[c].pc = "sleep"
  /\ now < Quantum + MaxTimerTicks * maxPollInterval
  /\ now' = now + maxPollInterval
  /\ UNCHANGED <<prefix, version, fallbackToStale, direct, store, locks, l1Cache,
                 calls>>

\* fetch calls on a clock fine enough to follow every turn of the wait loop
PollNext ==
  \/ \E c \in Calls, key \in Keys, o \in OptionChoices : FetchStart(c, key, o)
  \/ \E c \in Calls : CallStep(c)
  \/ TimerTick

PollSpec == Init /\ [][PollNext]_vars

(* ------------------- fetch: keys and options at large ----------------- *)

\* fetch calls for two logical keys under a wider choice of options
OptionNext ==
  \/ \E c \in Calls, key \in OptionKeys, o \in WideOptionChoices :
       FetchStart(c, key, o)
  \/ \E c \in Calls : CallStep(c)
  \/ Tick

OptionSpec == Init /\ [][OptionNext]_vars

(* ------------------- the backend used on its own -------------------- *)

\* the record of one more direct operation
Op(op, key, ttl, acquired, value, held) ==
  [n |-> direct.n + 1, op |-> op, key |-> key, ttl |-> ttl,
   acquired |-> acquired, value |-> value, held |-> held,
   written |-> direct.written, composed |-> direct.composed,
   items |-> [kind |-> "undefined", list |-> <<>>], trace |-> <<>>,
   error |-> NoError]

\* await backend.lock(key, ttl); owner 0 is a client other than a fetch call
DirectLock(key, ttl) ==
  /\ direct.n < MaxOps
  /\ LET acquired == BackendLock(locks, key, now)
     IN /\ locks' = IF acquired
                    THEN LocksAfterLock(locks, key, ttl, now, 0)
                    ELSE locks
        /\ direct' = Op("lock", key, ttl, acquired, Undefined,
                        IF acquired
                        THEN MapSet(direct.held, key, [at |-> now, ttl |-> ttl])
                        ELSE direct.held)
  /\ UNCHANGED <<now, prefix, version, fallbackToStale, store, l1Cache,
                 calls>>

\* await backend.unlock(key)
DirectUnlock(key) ==
  /\ direct.n < MaxOps
  /\ locks' = BackendUnlock(locks, key)
  /\ direct' = Op("unlock", key, 0, FALSE, Undefined,
                  MapDel(direct.held, key))
  /\ UNCHANGED <<now, prefix, version, fallbackToStale, store, l1Cache,
                 calls>>

\* await backend.clear()
DirectClear ==
  /\ direct.n < MaxOps
  /\ store' = EmptyMap
  /\ locks' = EmptyMap
  /\ direct' = [Op("clear", <<>>, 0, FALSE, Undefined, EmptyMap)
                  EXCEPT !.written = EmptyMap]
  /\ UNCHANGED <<now, prefix, version, fallbackToStale, l1Cache, calls>>

\* backend.cleanup()
DirectCleanup ==
  /\ direct.n < MaxOps
  /\ store' = BackendCleanupStore(store, now)
  /\ locks' = BackendCleanupLocks(locks, now)
  /\ direct' = Op("cleanup", <<>>, 0, FALSE, Undefined, direct.held)
  /\ UNCHANGED <<now, prefix, version, fallbackToStale, l1Cache, calls>>

\* await backend.get(key)
DirectGet(key) ==
  /\ direct.n < MaxOps
  /\ store' = StoreAfterGet(store, key, now)
  /\ direct' = Op("get", key, 0, FALSE, BackendGet(store, key, now),
                  direct.held)
  /\ UNCHANGED <<now, prefix, version, fallbackToStale, locks, l1Cache,
                 calls>>

\* await backend.set(key, value, {ttl})
DirectSet(key, value, ttl) ==
  /\ direct.n < MaxOps
  /\ store' = BackendSet(store, key, value, ttl, now)
  /\ direct' = [Op("set", key, ttl, FALSE, value, direct.held)
                  EXCEPT !.written =
                    MapSet(@, key, [value |-> value, at |-> now, ttl |-> ttl])]
  /\ UNCHANGED <<now, prefix, version, fallbackToStale, locks, l1Cache,
                 calls>>

\* await backend.del(key)
DirectDel(key) ==
  /\ direct.n < MaxOps
  /\ store' = BackendDel(store, key)
  /\ direct' = [Op("del", key, 0, FALSE, Undefined, direct.held)
                  EXCEPT !.written = MapDel(@, key)]
  /\ UNCHANGED <<now, prefix, version, fallbackToStale, locks, l1Cache,
                 calls>>

BackendNext ==
  \/ \E key \in DirectKeys, ttl \in DirectLockTtls : DirectLock(key, ttl)
  \/ \E key \in DirectKeys : DirectUnlock(key)
  \/ DirectClear
  \/ DirectCleanup
  \/ \E key \in DirectKeys : DirectGet(key)
  \/ \E key \in DirectKeys, value \in DirectValues, ttl \in DirectTtls :
       DirectSet(key, value, ttl)
  \/ \E key \in DirectKeys : DirectDel(key)
  \/ Tick

BackendSpec == Init /\ [][BackendNext]_vars

(* ---------------------- the key composer on its own ------------------ *)

\* createCacheHandler({ backend, prefix, version }) by a client that only
\* composes keys
KeyInit ==
  /\ now = Quantum
  /\ prefix \in PrefixChoices
  /\ version \in VersionChoices
  /\ fallbackToStale = FALSE
  /\ store = EmptyMap
  /\ locks = EmptyMap
  /\ l1Cache = EmptyMap
  /\ calls = [c \in Calls |-> IdleCall]
  /\ direct = NoOp

\* the client creates another handler with other prefix and version options
\* over the same backend and goes on with that one
CreateHandler(p, v) ==
  /\ direct.n < MaxOps
  /\ <<p, v>> # <<prefix, version>>
  /\ prefix' = p
  /\ version' = v
  /\ UNCHANGED <<now, fallbackToStale, store, locks, l1Cache, calls, direct>>

\* handler.getFullKey(key)
CallGetFullKey(key) ==
  /\ direct.n < MaxOps
  /\ direct' = [Op("getFullKey", key, 0, FALSE, Undefined, direct.held)
                  EXCEPT !.composed =
                    SubSeq(<<[prefix |-> prefix, version |-> version,
                              key |-> key, fullKey |-> getFullKey(key)]>>
                           \o @, 1, Min(2, Len(@) + 1))]
  /\ UNCHANGED <<now, prefix, version, fallbackToStale, store, locks, l1Cache,
                 calls>>

KeyNext ==
  \/ \E p \in PrefixChoices, v \in VersionChoices : CreateHandler(p, v)
  \/ \E key \in KeyChoices : CallGetFullKey(key)

KeySpec == KeyInit /\ [][KeyNext]_vars

(* --------------------------- instrumentation -------------------------- *)

\* one backend call as the history records it
BackendCall(op, key, value, ttl) ==
  [op |-> op, key |-> key, value |-> value, ttl |-> ttl]

\* !items || !Array.isArray(items) || items.length === 0
NothingToRegister(items) == items.kind # "array" \/ Len(items.list) = 0

\* a primary write under the logical key, without the namespace
PrimaryCallRawKey(item) ==
  BackendCall("set", item.key, item.value,
              IF "ttl" \in item.given THEN item.ttl ELSE 0)

\* handler.backend.set(fullKey, value, options)
PrimaryCall(item) ==
  BackendCall("set", getFullKey(item.key), item.value,
              IF "ttl" \in item.given THEN item.ttl ELSE 0)

\* a stale copy that is also written when staleTtl equals ttl
ShouldRegisterStaleGe(item) ==
  /\ "staleTtl" \in item.given
  /\ item.staleTtl # 0
  /\ item.staleTtl >= (IF "ttl" \in item.given THEN item.ttl ELSE 0)

\* options?.staleTtl && options.staleTtl > (options.ttl || 0)
ShouldRegisterStale(item) ==
  /\ "staleTtl" \in item.given
  /\ item.staleTtl # 0
  /\ item.staleTtl > (IF "ttl" \in item.given THEN item.ttl ELSE 0)

\* handler.backend.set(staleKey, value, { ttl: options.staleTtl })
StaleCall(item) ==
  BackendCall("set", StaleKeyOf(getFullKey(item.key)), item.value,
              item.staleTtl)

\* the backend calls of Promise.all(items.map(async ...)): every callback
\* runs up to its first await, the primary set, in item order; the stale
\* sets follow in item order when the callbacks resume
RegisterCalls(list) ==
  LET withStale == SelectSeq(list, ShouldRegisterStale)
  IN [i \in 1..Len(list) |-> PrimaryCall(list[i])]
     \o [i \in 1..Len(withStale) |-> StaleCall(withStale[i])]

\* the store after a sequence of set calls
RECURSIVE StoreAfterCalls(_, _, _)
StoreAfterCalls(st, tr, t) ==
  IF Len(tr) = 0 THEN st
  ELSE StoreAfterCalls(BackendSet(st, tr[1].key, tr[1].value, tr[1].ttl, t),
                       Tail(tr), t)

\* await registerInitialCache(handler, items)
registerInitialCache(items) ==
  /\ direct.n < MaxOps
  /\ LET tr == IF NothingToRegister(items) THEN <<>>
               ELSE RegisterCalls(items.list)
     IN /\ store' = StoreAfterCalls(store, tr, now)
        /\ direct' = [Op("registerInitialCache", <<>>, 0, FALSE, Undefined,
                         direct.held)
                        EXCEPT !.items = items, !.trace = tr]
  /\ UNCHANGED <<now, prefix, version, fallbackToStale, locks, l1Cache,
                 calls>>

\* await clearCache(handler), for a handler whose backend has or lacks the
\* optional clear method
clearCache(hasClear) ==
  /\ direct.n < MaxOps
  /\ IF hasClear
     THEN /\ store' = EmptyMap
          /\ locks' = EmptyMap
          /\ direct' = [Op("clearCache", <<>>, 0, FALSE, Undefined, EmptyMap)
                          EXCEPT !.acquired = hasClear,
                                 !.written = EmptyMap,
                                 !.trace = <<BackendCall("clear", <<>>,
                                                         Undefined, 0)>>]
     ELSE /\ UNCHANGED <<store, locks>>
          /\ direct' = [Op("clearCache", <<>>, 0, FALSE, Undefined,
                           direct.held)
                          EXCEPT !.error = UnsupportedClearError]
  /\ UNCHANGED <<now, prefix, version, fallbackToStale, l1Cache, calls>>

InstrumentationNext ==
  \/ \E items \in ItemLists : registerInitialCache(items)
  \/ \E hasClear \in BOOLEAN : clearCache(hasClear)
  \/ \E key \in DirectKeys, ttl \in DirectLockTtls : DirectLock(key, ttl)

InstrumentationSpec == Init /\ [][InstrumentationNext]_vars

(* ------------------------------ claims -------------------------------- *)

Done(c) == calls[c].pc = "done"

\* the two calls were in flight at the same time
Concurrent(c, d) == d \in calls[c].overlap \/ c \in calls[d].overlap

TimedOut(c) ==
  calls[c].ret = "error" /\ calls[c].error.name = "CacheTimeoutError"

\* calls whose fetcher is being executed
InOrigin(key) == {c \in Calls : calls[c].pc = "origin" /\ calls[c].key = key}

\* a call that acquired the lock was still running when its lock entry
\* reached its TTL expiry
Outlived(c) ==
  \/ calls[c].outlived
  \/ /\ InFlight(c)
     /\ calls[c].lockResult = "acquired"
     /\ now >= calls[c].lockExpiresAt

\* C1: single-flight.  Whenever N >= 2 pairwise concurrent fetch calls for
\* one key have all found the primary entry absent, no backend call threw,
\* no origin failed, no lock outlived its TTL and no waiter timed out, then
\* exactly one of them invoked the origin and every other one returned
\* the value of that invocation.
C1_SingleFlight ==
  \A S \in SUBSET Calls :
    ( /\ Cardinality(S) >= 2
      /\ \A c \in Calls \ S : calls[c].pc = "idle"
      /\ \A c \in S : /\ Done(c)
                      /\ calls[c].initial = "miss"
                      /\ ~ calls[c].faulted
                      /\ calls[c].origin # "fail"
                      /\ ~ calls[c].outlived
                      /\ ~ TimedOut(c)
      /\ \A c, d \in S :
           c # d => calls[c].key = calls[d].key /\ Concurrent(c, d) )
    => \E w \in S :
         /\ calls[w].origins = 1
         /\ \A c \in S \ {w} :
              /\ calls[c].origins = 0
              /\ calls[c].ret = "value"
              /\ calls[c].value = calls[w].originValue

\* C2 as stated: while the lock entry most recently acquired for a key is
\* in the backend and has not reached its expiry, at most one call is
\* executing its origin function for that key.
C2_MostRecentLockExcludes ==
  \A key \in Keys :
    LET lockKey == LockKeyOf(getFullKey(key))
    IN (lockKey \in DOMAIN locks /\ locks[lockKey].expiresAt > now)
       => Cardinality(InOrigin(key)) <= 1

\* C2 as amended: as long as no call that acquired the lock of a key has
\* kept running until its lock entry reached its TTL expiry, at most one
\* call is executing its origin function for that key.
C2_AtMostOneOrigin ==
  \A key \in Keys :
    (\A c \in Calls : calls[c].key = key => ~ Outlived(c))
    => Cardinality(InOrigin(key)) <= 1

\* a call executes its origin while a concurrent call for the same key has
\* found the lock busy and waits, and no lock has outlived its TTL
C2_Witness ==
  \E c, d \in Calls :
    /\ calls[c].pc = "origin"
    /\ calls[d].pc = "sleep"
    /\ calls[c].key = calls[d].key
    /\ \A e \in Calls : ~ Outlived(e)

\* C3: when the initial backend.get of a call finds the primary entry
\* present and unexpired, the call returns the stored value in that step
\* without having invoked the origin, called lock, unlock or set, and it
\* leaves the store and the locks as they were.
C3_HitIsPassive ==
  [][\A c \in Calls :
       LET fullKey == getFullKey(calls[c].key)
       IN ( /\ calls[c].pc = "get"
            /\ calls'[c].pc # "get"
            /\ calls'[c].initial # "fail"
            /\ fullKey \in DOMAIN store
            /\ (store[fullKey].expiresAt = 0 \/ now <= store[fullKey].expiresAt) )
          => /\ calls'[c].pc = "done"
             /\ calls'[c].ret = "value"
             /\ calls'[c].value = store[fullKey].value
             /\ calls'[c].origins = 0
             /\ calls'[c].lockCalls = 0
             /\ calls'[c].unlockCalls = 0
             /\ calls'[c].setCalls = 0
             /\ store' = store
             /\ locks' = locks]_vars

\* a call has been answered from a present primary entry
C3_Witness ==
  \E c \in Calls :
    /\ Done(c)
    /\ calls[c].initial = "hit"
    /\ calls[c].ret = "value"
    /\ getFullKey(calls[c].key) \in DOMAIN store
    /\ calls[c].value = store[getFullKey(calls[c].key)].value

\* C4: a fetch call that runs alone, started with the primary entry absent
\* and the lock free, met no backend failure and has an origin that does
\* not fail, has on return invoked the origin exactly once and returned
\* its value, and the primary entry then holds that value with the call's
\* ttl (no expiry for ttl 0).
C4_MissFetchesOnce ==
  [][\A c \in Calls :
       LET r == calls[c]
           q == calls'[c]
           fullKey == getFullKey(q.key)
           fresh == IF r.pc = "idle"
                    THEN /\ BackendGet(store, fullKey, now) = Undefined
                         /\ BackendLock(locks, LockKeyOf(fullKey), now)
                    ELSE r.freshMiss
       IN ( /\ r.pc # "done"
            /\ q.pc = "done"
            /\ fresh
            /\ q.overlap = {}
            /\ ~ q.faulted
            /\ q.origin # "fail" )
          => /\ q.origins = 1
             /\ q.ret = "value"
             /\ q.value = q.originValue
             /\ fullKey \in DOMAIN store'
             /\ store'[fullKey].value = q.value
             /\ IF r.ttl = 0
                THEN store'[fullKey].expiresAt = 0
                ELSE store'[fullKey].expiresAt - r.ttl * 1000 \in 1..now]_vars

\* C5: a call that acquired the lock has called backend.unlock exactly once
\* when it has returned or thrown, and never more than once; a call that did
\* not acquire the lock never calls backend.unlock.
C5_UnlockExactlyOnce ==
  \A c \in Calls :
    /\ calls[c].unlockCalls <= 1
    /\ calls[c].lockResult # "acquired" => calls[c].unlockCalls = 0
    /\ (Done(c) /\ calls[c].lockResult = "acquired")
         => calls[c].unlockCalls = 1

\* a lock holder whose origin failed has thrown after one unlock
C5_Witness ==
  \E c \in Calls :
    /\ Done(c)
    /\ calls[c].lockResult = "acquired"
    /\ calls[c].origin = "fail"
    /\ calls[c].ret = "error"
    /\ calls[c].unlockCalls = 1

\* C6: a call that found the lock busy never invokes the origin, never
\* calls backend.lock again, never writes and never unlocks; it ends only by
\* returning a value it has just read from the unexpired primary entry or
\* by a CacheTimeoutError that names its logical key and its lockTimeout,
\* raised once lockTimeout has elapsed since the wait began; and a turn of
\* its wait loop that reads no value at or after that deadline ends it
\* with this error.
C6_WaiterTimesOut ==
  [][\A c \in Calls :
       LET r == calls[c]
           q == calls'[c]
           fullKey == getFullKey(r.key)
       IN /\ q.lockResult = "busy"
             => /\ q.origins = 0
                /\ q.lockCalls = 1
                /\ q.setCalls = 0
                /\ q.unlockCalls = 0
                /\ q.pc \in {"sleep", "done"}
          /\ (r.lockResult = "busy" /\ r.pc # "done" /\ q.pc = "done")
             => \/ /\ q.ret = "value"
                   /\ q.value # Undefined
                   /\ fullKey \in DOMAIN store
                   /\ q.value = store[fullKey].value
                   /\ store[fullKey].expiresAt = 0
                        \/ now <= store[fullKey].expiresAt
                \/ /\ q.ret = "error"
                   /\ q.error.name = "CacheTimeoutError"
                   /\ q.error.key = r.key
                   /\ q.error.timeout = r.lockTimeout
                   /\ now - r.startTime >= r.lockTimeout
          /\ ( /\ r.pc = "sleep"
               /\ q # [r EXCEPT !.overlap = q.overlap]
               /\ q.ret # "value"
               /\ now - r.startTime >= r.lockTimeout )
             => q.pc = "done"]_vars

\* a waiter has failed with the timeout error of its key and lockTimeout
\* while the holder of the lock is still executing its origin and the lock
\* entry is still in the backend
C6_Witness ==
  \E c, d \in Calls :
    /\ Done(c)
    /\ calls[c].lockResult = "busy"
    /\ TimedOut(c)
    /\ calls[c].error.key = calls[c].key
    /\ calls[c].error.timeout = 500
    /\ calls[d].pc = "origin"
    /\ calls[d].key = calls[c].key
    /\ LockKeyOf(getFullKey(calls[c].key)) \in DOMAIN locks

\* the calls of S are all the calls made so far, they are for one key and
\* pairwise concurrent, each found the primary entry absent, no backend
\* call of theirs threw, and w is the only one that invoked the origin,
\* whose failure it has thrown (no stale fallback applied)
OneFailedOrigin(S, w) ==
  /\ Cardinality(S) >= 2
  /\ w \in S
  /\ \A c \in Calls \ S : calls[c].pc = "idle"
  /\ \A c \in S : /\ Done(c)
                  /\ calls[c].initial = "miss"
                  /\ ~ calls[c].faulted
                  /\ calls[c].origins = (IF c = w THEN 1 ELSE 0)
  /\ \A c, d \in S :
       c # d => calls[c].key = calls[d].key /\ Concurrent(c, d)
  /\ calls[w].origin = "fail"
  /\ calls[w].ret = "error"

\* C7 as stated: when N >= 2 concurrent calls for one missing key have
\* ended, exactly one of them invoked the origin, it failed and no stale
\* fallback applied, every one of the N calls has failed with the error
\* of the call that invoked the origin.
C7_AllFailIdentically ==
  \A S \in SUBSET Calls : \A w \in S :
    OneFailedOrigin(S, w)
    => \A c \in S : calls[c].ret = "error" /\ calls[c].error = calls[w].error

\* C7 as amended: in that situation the call that invoked the origin has
\* failed with the origin's own error, and every other call has failed
\* with a CacheTimeoutError that names its logical key, never with the
\* origin's error.
C7_WaitersTimeOut ==
  \A S \in SUBSET Calls : \A w \in S :
    OneFailedOrigin(S, w)
    => /\ calls[w].error.name = "OriginError"
       /\ calls[w].error.id = w
       /\ \A c \in S \ {w} :
            /\ calls[c].ret = "error"
            /\ calls[c].error.name = "CacheTimeoutError"
            /\ calls[c].error.key = calls[c].key
            /\ calls[c].error.timeout \in
                 {MergeOptions(o).lockTimeout : o \in OptionChoices}
            /\ calls[c].error # calls[w].error

\* two concurrent calls missed, one invoked the origin and threw its
\* failure, the other one waited and has failed too
C7_Witness ==
  \E w, c \in Calls :
    /\ OneFailedOrigin({w, c}, w)
    /\ c # w
    /\ calls[c].lockResult = "busy"
    /\ calls[c].ret = "error"

\* C8: with fallbackToStale enabled, a fetch call that runs alone, starts
\* with a stale entry of its key in the backend (left by an earlier
\* successful fetch), with the primary entry absent and the lock free,
\* meets no backend failure and has an origin that does not succeed,
\* returns the value of that stale entry and has emitted an ERROR event
\* followed by a HIT event for "stale:" + fullKey.
C8_StaleFallback ==
  [][\A c \in Calls :
       LET r == calls[c]
           q == calls'[c]
           fullKey == getFullKey(q.key)
           staleKey == StaleKeyOf(fullKey)
           fresh == IF r.pc = "idle"
                    THEN /\ BackendGet(store, fullKey, now) = Undefined
                         /\ BackendLock(locks, LockKeyOf(fullKey), now)
                    ELSE r.freshMiss
           stale == IF r.pc = "idle"
                    THEN BackendGet(store, staleKey, now)
                    ELSE r.staleAtStart
       IN ( /\ fallbackToStale
            /\ r.pc # "done"
            /\ q.pc = "done"
            /\ fresh
            /\ stale # Undefined
            /\ q.overlap = {}
            /\ ~ q.faulted
            /\ q.origin # "ok" )
          => /\ q.ret = "value"
             /\ q.value = stale
             /\ \E i, j \in 1..Len(q.events) :
                  /\ i < j
                  /\ q.events[i].type = "ERROR"
                  /\ q.events[j] = [type |-> "HIT", key |-> staleKey]]_vars

\* C9: a call that has read the stale entry had found the primary entry
\* absent and its own origin call had failed; and a call whose origin
\* succeeded and which has returned a value has returned the value its
\* origin produced.
C9_StaleOnlyAfterOriginFailure ==
  \A c \in Calls :
    /\ calls[c].staleRead
         => calls[c].initial = "miss" /\ calls[c].origin = "fail"
    /\ (Done(c) /\ calls[c].origin = "ok" /\ calls[c].ret = "value")
         => calls[c].value = calls[c].originValue

\* the stale entries a backend.get would return at time t
LiveStale(st, t) ==
  [k \in {x \in DOMAIN st :
            /\ \E key \in Keys : x = StaleKeyOf(getFullKey(key))
            /\ st[x].expiresAt = 0 \/ t <= st[x].expiresAt} |-> st[k]]

\* C10: a step of a fetch call changes the stale entries of the backend
\* only if fallbackToStale is enabled, the call's staleTtl is strictly
\* greater than its ttl, its origin has succeeded and its primary write
\* has been made; the change is then the entry "stale:" + fullKey of that
\* call, holding the origin's value with expiry staleTtl.
C10_StaleWriteGuarded ==
  [][\A c \in Calls :
       LET r == calls[c]
           staleKey == StaleKeyOf(getFullKey(r.key))
       IN ( /\ calls'[c] # r
            /\ LiveStale(store', now) # LiveStale(store, now) )
          => /\ fallbackToStale
             /\ r.staleTtl > r.ttl
             /\ r.origin = "ok"
             /\ r.pc = "staleSet"
             /\ r.setCalls = 1
             /\ store' = [k \in DOMAIN store \cup {staleKey} |->
                            IF k = staleKey
                            THEN [value |-> r.originValue,
                                  expiresAt |-> now + r.staleTtl * 1000]
                            ELSE store[k]]]_vars

\* with fallbackToStale enabled, a call whose staleTtl does not exceed its
\* ttl has made its primary write after a successful origin call, and the
\* stale entry of its key is still the one an earlier call wrote
C10_Witness ==
  \E c, d \in Calls :
    LET staleKey == StaleKeyOf(getFullKey(calls[c].key))
    IN /\ fallbackToStale
       /\ calls[c].pc = "unlock"
       /\ calls[c].origin = "ok"
       /\ calls[c].ret = "value"
       /\ calls[c].staleTtl <= calls[c].ttl
       /\ Done(d)
       /\ calls[d].key = calls[c].key
       /\ staleKey \in DOMAIN store
       /\ store[staleKey].value = calls[d].originValue
       /\ store[staleKey].value # calls[c].originValue

\* C11: with fallbackToStale enabled, after a successful fetch of a key that
\* left no stale entry (staleTtl <= ttl) and the removal of the primary
\* entry, a fetch call of that key that runs alone, meets no backend
\* failure and has an origin that does not succeed throws the error of its
\* origin, and the backend still holds no stale entry for the key.
C11_NoStaleFallback ==
  [][\A c \in Calls :
       LET r == calls[c]
           q == calls'[c]
           fullKey == getFullKey(q.key)
           staleKey == StaleKeyOf(fullKey)
           fresh == IF r.pc = "idle"
                    THEN /\ BackendGet(store, fullKey, now) = Undefined
                         /\ BackendLock(locks, LockKeyOf(fullKey), now)
                    ELSE r.freshMiss
           stale == IF r.pc = "idle"
                    THEN BackendGet(store, staleKey, now)
                    ELSE r.staleAtStart
       IN ( /\ fallbackToStale
            /\ r.pc # "done"
            /\ q.pc = "done"
            /\ \E d \in Calls \ {c} :
                 /\ Done(d)
                 /\ calls[d].key = q.key
                 /\ calls[d].origin = "ok"
                 /\ calls[d].ret = "value"
                 /\ ~ calls[d].faulted
            /\ fresh
            /\ stale = Undefined
            /\ q.overlap = {}
            /\ ~ q.faulted
            /\ q.origin # "ok" )
          => /\ q.ret = "error"
             /\ q.error.name = "OriginError"
             /\ q.error.id = c
             /\ staleKey \notin DOMAIN store']_vars

\* C12: when the origin of a call fails, an ERROR event for the full key is
\* emitted and the origin's own error becomes the pending error; with
\* fallback disabled the call goes straight to the release of the lock;
\* a stale read that finds no entry or that throws leaves the origin's
\* error pending; and the release of the lock, failing or not, ends the
\* call by throwing exactly that error.
C12_OriginErrorVerbatim ==
  [][\A c \in Calls :
       LET r == calls[c]
           q == calls'[c]
           fullKey == getFullKey(r.key)
           staleKey == StaleKeyOf(fullKey)
           own == [name |-> "OriginError", key |-> <<>>, timeout |-> 0,
                   cause |-> "fetcher", id |-> c]
       IN /\ (r.pc = "origin" /\ q.origin = "fail")
             => /\ q.events = Append(r.events,
                                      [type |-> "ERROR", key |-> fullKey])
                /\ q.ret = "error"
                /\ q.error = own
                /\ ~ fallbackToStale => q.pc = "unlock"
          /\ ( /\ r.pc = "staleGet"
               /\ q.pc # "staleGet"
               /\ r.origin = "fail"
               /\ \/ BackendGet(store, staleKey, now) = Undefined
                  \/ q.faulted /\ ~ r.faulted )
             => /\ q.pc = "unlock"
                /\ q.ret = "error"
                /\ q.error = own
          /\ ( /\ r.pc = "unlock"
               /\ q.pc = "done"
               /\ r.origin = "fail"
               /\ r.ret = "error" )
             => /\ q.ret = "error"
                /\ q.error = own
                /\ \E i \in 1..Len(q.events) :
                     q.events[i] = [type |-> "ERROR", key |-> fullKey]]_vars

\* with fallback enabled, a call whose origin failed and whose stale read
\* threw has thrown the error of its origin
C12_Witness ==
  \E c \in Calls :
    /\ fallbackToStale
    /\ Done(c)
    /\ calls[c].origin = "fail"
    /\ calls[c].staleRead
    /\ calls[c].faulted
    /\ calls[c].setCalls = 0
    /\ calls[c].ret = "error"
    /\ calls[c].error.name = "OriginError"
    /\ calls[c].error.id = c
    /\ \E i \in 1..Len(calls[c].events) :
         calls[c].events[i] =
           [type |-> "ERROR",
            key |-> StaleKeyOf(getFullKey(calls[c].key))]

\* C13: a call whose initial backend.get threw has ended with a
\* CacheBackendError, has emitted no event at all (no MISS) and has made no
\* lock attempt; a call whose backend.lock threw has ended with a
\* CacheBackendError after that one lock call; neither has invoked the
\* origin, written to the backend, read the stale entry or called unlock.
C13_ReadAndLockFailuresFatal ==
  \A c \in Calls :
    LET r == calls[c]
    IN /\ r.initial = "fail"
          => /\ r.pc = "done"
             /\ r.ret = "error"
             /\ r.error.name = "CacheBackendError"
             /\ r.error.cause = "get"
             /\ r.events = <<>>
             /\ r.lockCalls = 0
             /\ r.lockResult = "none"
       /\ r.lockResult = "fail"
          => /\ r.pc = "done"
             /\ r.ret = "error"
             /\ r.error.name = "CacheBackendError"
             /\ r.error.cause = "lock"
             /\ r.lockCalls = 1
             /\ r.events =
                  <<[type |-> "MISS", key |-> getFullKey(r.key)]>>
       /\ (r.initial = "fail" \/ r.lockResult = "fail")
          => /\ r.origins = 0
             /\ r.origin = "none"
             /\ r.setCalls = 0
             /\ r.unlockCalls = 0
             /\ ~ r.staleRead
             /\ r.value = Undefined

\* one call has failed on its initial read and another one on its lock
\* call, and the backend holds neither an entry nor a lock
C13_Witness ==
  \E c, d \in Calls :
    /\ calls[c].initial = "fail"
    /\ calls[c].error.name = "CacheBackendError"
    /\ calls[d].lockResult = "fail"
    /\ calls[d].error.name = "CacheBackendError"
    /\ store = EmptyMap
    /\ locks = EmptyMap

\* C14: the error a call has thrown is a CacheBackendError, a
\* CacheSerializationError, a CacheTimeoutError, a CacheConfigError, or
\* the error of the call's own origin.
C14_FiveKinds ==
  \A c \in Calls :
    (Done(c) /\ calls[c].ret = "error")
    => \/ calls[c].error.name \in
            {"CacheBackendError", "CacheSerializationError",
             "CacheTimeoutError", "CacheConfigError"}
       \/ /\ calls[c].error.name = "OriginError"
          /\ calls[c].error.id = c
          /\ calls[c].origin = "fail"

\* C15: the release of the lock ends the call with the outcome that was
\* pending before it, the same value or the same error, whether
\* backend.unlock throws or not; when it throws, the lock entry stays and
\* one ERROR event for the lock key is appended, the only such event of
\* the call; when it does not throw, no event is emitted.
C15_UnlockFailureSwallowed ==
  [][\A c \in Calls :
       LET r == calls[c]
           q == calls'[c]
           lockKey == LockKeyOf(getFullKey(r.key))
           logged == [type |-> "ERROR", key |-> lockKey]
       IN (r.pc = "unlock" /\ q.pc = "done")
          => /\ r.ret \in {"value", "error"}
             /\ q.ret = r.ret
             /\ q.value = r.value
             /\ q.error = r.error
             /\ \A i \in 1..Len(r.events) : r.events[i] # logged
             /\ \/ /\ q.events = r.events
                   /\ lockKey \notin DOMAIN locks'
                \/ /\ q.events = Append(r.events, logged)
                   /\ locks' = locks]_vars

\* a call has returned the value of its origin although its unlock threw:
\* the failure is its last event and the lock entry is still there
C15_Witness ==
  \E c \in Calls :
    LET lockKey == LockKeyOf(getFullKey(calls[c].key))
        n == Len(calls[c].events)
    IN /\ Done(c)
       /\ calls[c].lockResult = "acquired"
       /\ calls[c].origin = "ok"
       /\ calls[c].ret = "value"
       /\ calls[c].value = calls[c].originValue
       /\ n > 0
       /\ calls[c].events[n] = [type |-> "ERROR", key |-> lockKey]
       /\ lockKey \in DOMAIN locks

\* the origin and the primary write of the call succeeded and its write of
\* the stale copy threw
StaleWriteFailed(r) ==
  /\ r.origin = "ok"
  /\ r.setCalls = 2
  /\ \E i \in 1..Len(r.events) :
       r.events[i] = [type |-> "ERROR",
                      key |-> StaleKeyOf(getFullKey(r.key))]

\* C16: the step in which the write of the stale copy throws leaves the
\* whole store as it is, so the primary entry stays written, appends an
\* ERROR event for the stale key and leaves the origin's value as the
\* pending return value; the call then calls backend.unlock once, which
\* removes the lock entry unless it throws too, and returns the origin's
\* value.
C16_StaleWriteFailureSwallowed ==
  [][\A c \in Calls :
       LET r == calls[c]
           q == calls'[c]
           fullKey == getFullKey(r.key)
           staleKey == StaleKeyOf(fullKey)
           lockKey == LockKeyOf(fullKey)
       IN /\ ( /\ r.pc = "staleSet"
               /\ q.pc # "staleSet"
               /\ q.events # r.events )
             => /\ q.pc = "unlock"
                /\ q.ret = "value"
                /\ q.value = r.originValue
                /\ q.events = Append(r.events,
                                      [type |-> "ERROR", key |-> staleKey])
                /\ StaleWriteFailed(q)
                /\ store' = store
          /\ (r.pc = "unlock" /\ q.pc = "done" /\ StaleWriteFailed(r))
             => /\ q.ret = "value"
                /\ q.value = r.originValue
                /\ q.unlockCalls = 1
                /\ lockKey \notin DOMAIN locks' \/ locks' = locks]_vars

\* a call has returned the value of its origin after its stale write
\* threw: the primary entry holds that value, there is no stale entry and
\* the lock is gone
C16_Witness ==
  \E c \in Calls :
    LET fullKey == getFullKey(calls[c].key)
    IN /\ Done(c)
       /\ StaleWriteFailed(calls[c])
       /\ calls[c].ret = "value"
       /\ calls[c].value = calls[c].originValue
       /\ fullKey \in DOMAIN store
       /\ store[fullKey].value = calls[c].originValue
       /\ StaleKeyOf(fullKey) \notin DOMAIN store
       /\ LockKeyOf(fullKey) \notin DOMAIN locks

\* C17: a turn of the wait loop whose backend.get throws appends an ERROR
\* event for the full key and leaves the call waiting with no outcome, or,
\* once lockTimeout has elapsed, ends it with a CacheTimeoutError; a later
\* turn that reads a value returns that value; a waiting call fails with
\* no other error than CacheTimeoutError and not before lockTimeout has
\* elapsed since the wait began.
C17_PollSurvivesGetFailure ==
  [][\A c \in Calls :
       LET r == calls[c]
           q == calls'[c]
           fullKey == getFullKey(r.key)
           elapsed == now - r.startTime >= r.lockTimeout
           found == BackendGet(store, fullKey, now)
       IN /\ (r.pc = "sleep" /\ q.events # r.events)
             => /\ q.events = Append(r.events,
                                      [type |-> "ERROR", key |-> fullKey])
                /\ store' = store
                /\ IF elapsed
                   THEN /\ q.pc = "done"
                        /\ q.ret = "error"
                        /\ q.error.name = "CacheTimeoutError"
                   ELSE /\ q.pc = "sleep"
                        /\ q.ret = "none"
                        /\ q.error.name = "none"
                        /\ q.sleepFrom = now
          /\ ( /\ r.pc = "sleep"
               /\ r.faulted
               /\ q # [r EXCEPT !.overlap = q.overlap]
               /\ q.events = r.events
               /\ found # Undefined )
             => /\ q.pc = "done"
                /\ q.ret = "value"
                /\ q.value = found
          /\ (r.pc = "sleep" /\ q.pc = "done" /\ q.ret = "error")
             => /\ q.error.name = "CacheTimeoutError"
                /\ elapsed
                /\ found = Undefined \/ q.events # r.events]_vars

\* a waiting call has returned the value another call wrote, after one of
\* its own polls had thrown
C17_Witness ==
  \E c, d \in Calls :
    LET fullKey == getFullKey(calls[c].key)
    IN /\ Done(c)
       /\ calls[c].lockResult = "busy"
       /\ calls[c].faulted
       /\ \E i \in 1..Len(calls[c].events) :
            calls[c].events[i] = [type |-> "ERROR", key |-> fullKey]
       /\ calls[c].ret = "value"
       /\ calls[d].origin = "ok"
       /\ calls[c].value = calls[d].originValue

\* C18: the L1 layer is transparent.  Whenever a call is answered from
\* l1Cache, the backend.get that a handler without the layer makes at that
\* point returns the same value, so that handler too returns it as a hit
\* without invoking the origin.
C18_L1Transparent ==
  [][\A c \in Calls :
       LET r == calls[c]
           q == calls'[c]
       IN (r.pc = "idle" /\ q.initial = "l1")
          => /\ q.pc = "done"
             /\ q.ret = "value"
             /\ q.origins = 0
             /\ BackendGet(store, getFullKey(q.key), now) = q.value]_vars

\* the last successful lock(key, ttl) has been followed by no unlock(key)
\* and no clear(), and its ttl has not passed at time t
Protected(key, t) ==
  /\ key \in DOMAIN direct.held
  /\ t < direct.held[key].at + direct.held[key].ttl * 1000

\* C19: a backend.lock call on a key made after a successful lock on that
\* key, before any unlock of the key or clear and before the ttl of the
\* successful call has passed, returns false and changes nothing, so that
\* of the lock calls made in such an interval exactly the first returns
\* true; a call that returns true stores an entry that expires ttl seconds
\* later, and a call that returns false leaves the locks as they are.
C19_LockMutualExclusion ==
  [][( /\ direct'.n = direct.n + 1
       /\ direct'.op = "lock" )
     => LET key == direct'.key
        IN /\ Protected(key, now)
              => ~ direct'.acquired /\ locks' = locks
           /\ direct'.acquired
              => /\ key \in DOMAIN locks'
                 /\ locks'[key].expiresAt = now + direct'.ttl * 1000
                 /\ \A k \in DOMAIN locks' \ {key} :
                      k \in DOMAIN locks /\ locks'[k] = locks[k]
           /\ ~ direct'.acquired => locks' = locks]_vars

\* a lock call has been refused at a later time than the successful call
\* on the same key, whose ttl has not passed yet
C19_Witness ==
  /\ direct.op = "lock"
  /\ ~ direct.acquired
  /\ Protected(direct.key, now)
  /\ now > direct.held[direct.key].at
  /\ direct.key \in DOMAIN locks

C21_EntryExpiry ==
  [][( /\ direct'.n = direct.n + 1
       /\ direct'.op = "get"
       /\ direct'.key \in DOMAIN direct.written )
     => LET w == direct.written[direct'.key]
            expiry == w.at + w.ttl * 1000
        IN /\ w.ttl = 0 => direct'.value = w.value
           /\ (w.ttl > 0 /\ now < expiry) => direct'.value = w.value
           /\ (w.ttl > 0 /\ now > expiry) => direct'.value = Undefined]_vars

\* a get has returned the value of an entry with a ttl at a later time
\* than its set and before its expiry instant
C21_WitnessBefore ==
  /\ direct.op = "get"
  /\ direct.key \in DOMAIN direct.written
  /\ direct.written[direct.key].ttl > 0
  /\ now > direct.written[direct.key].at
  /\ now < direct.written[direct.key].at + direct.written[direct.key].ttl * 1000
  /\ direct.value = direct.written[direct.key].value

\* a get has reported absent an entry whose expiry instant has passed and
\* that nothing had deleted
C21_Witness ==
  /\ direct.op = "get"
  /\ direct.key \in DOMAIN direct.written
  /\ direct.written[direct.key].ttl > 0
  /\ now > direct.written[direct.key].at + direct.written[direct.key].ttl * 1000
  /\ direct.value = Undefined

\* what get returns for every key, and whether lock succeeds for every key
Reads(st, t) == [k \in DirectKeys |-> BackendGet(st, k, t)]

Acquirable(lk, t) == [k \in DirectKeys |-> BackendLock(lk, k, t)]

\* C23: unlock and del are total and idempotent.  Neither throws, whatever
\* the key and the state; an unlock of a key that has no lock entry and
\* a del of a key that has no entry leave store and locks as they are; an
\* unlock of a key whose lock is acquirable and a del of a key that reads
\* absent change no result of get or lock; and an unlock (a del) that
\* directly follows an unlock (a del) of the same key changes nothing.
C23_UnlockDelIdempotent ==
  [][( /\ direct'.n = direct.n + 1
       /\ direct'.op \in {"unlock", "del"} )
     => LET key == direct'.key
            same == store' = store /\ locks' = locks
            sameResults == /\ Reads(store', now) = Reads(store, now)
                           /\ Acquirable(locks', now) = Acquirable(locks, now)
        IN /\ direct'.error = NoError
           /\ (direct'.op = "unlock" /\ key \notin DOMAIN locks) => same
           /\ (direct'.op = "del" /\ key \notin DOMAIN store) => same
           /\ (direct'.op = "unlock" /\ BackendLock(locks, key, now))
                => sameResults
           /\ (direct'.op = "del" /\ BackendGet(store, key, now) = Undefined)
                => sameResults
           /\ (direct.op = direct'.op /\ direct.key = key) => same]_vars

\* an unlock has directly followed an unlock of the same key, and a lock on
\* another key is still held
C23_Witness ==
  /\ direct.op = "unlock"
  /\ direct.n >= 3
  /\ direct.key \notin DOMAIN locks
  /\ direct.key \notin DOMAIN direct.held
  /\ \E k \in DOMAIN locks : k # direct.key /\ locks[k].expiresAt > now
  /\ DOMAIN store # {}

\* C22: absence is distinct from every stored value.  While the primary
\* entry of a key is present and unexpired with a value v (0 and null
\* included), a fetch call for that key that is answered before any
\* backend failure is a HIT: it emits the single event HIT, returns v and
\* invokes neither the origin nor lock.
C22_StoredValueIsHit ==
  [][\A c \in Calls :
       LET r == calls[c]
           q == calls'[c]
           fullKey == getFullKey(q.key)
           v == BackendGet(store, fullKey, now)
       IN ( /\ r.pc \in {"idle", "get"}
            /\ q.pc # r.pc
            /\ q.initial # "fail"
            /\ v # Undefined )
          => /\ q.pc \in {"get", "done"}
             /\ q.pc = "done"
                  => /\ q.ret = "value"
                     /\ q.value = v
                     /\ q.events = <<Event("HIT", fullKey)>>
                     /\ q.origins = 0
                     /\ q.lockCalls = 0]_vars

\* the delimiter between two segments
Colon == <<":">>

\* the full key spelled out for each of the eight patterns of empty segments
ExpectedFullKey(p, v, k) ==
  IF p # <<>> /\ v # <<>> /\ k # <<>> THEN p \o Colon \o v \o Colon \o k
  ELSE IF p # <<>> /\ v # <<>> THEN p \o Colon \o v
  ELSE IF p # <<>> /\ k # <<>> THEN p \o Colon \o k
  ELSE IF v # <<>> /\ k # <<>> THEN v \o Colon \o k
  ELSE IF p # <<>> THEN p
  ELSE IF v # <<>> THEN v
  ELSE k

\* the getFullKey calls the state remembers
Composed == {direct.composed[i] : i \in 1..Len(direct.composed)}

Triple(e) == <<e.prefix, e.version, e.key>>

\* C24: getFullKey(key) is the non-empty segments among prefix, version and
\* key, in that order, joined by ":"; the triples of the tests give
\* "app:v1:posts", "posts", "myapp:mykey" and "v2:mykey"; and two calls with
\* the same triple return the same string.
C24_FullKeyIsJoin ==
  /\ \A e \in Composed :
       /\ e.fullKey = ExpectedFullKey(e.prefix, e.version, e.key)
       /\ Triple(e) = << <<"a", "p", "p">>, <<"v", "1">>,
                         <<"p", "o", "s", "t", "s">> >>
            => e.fullKey = <<"a", "p", "p", ":", "v", "1", ":",
                             "p", "o", "s", "t", "s">>
       /\ Triple(e) = << <<>>, <<>>, <<"p", "o", "s", "t", "s">> >>
            => e.fullKey = <<"p", "o", "s", "t", "s">>
       /\ Triple(e) = << <<"m", "y", "a", "p", "p">>, <<>>,
                         <<"m", "y", "k", "e", "y">> >>
            => e.fullKey = <<"m", "y", "a", "p", "p", ":",
                             "m", "y", "k", "e", "y">>
       /\ Triple(e) = << <<>>, <<"v", "2">>, <<"m", "y", "k", "e", "y">> >>
            => e.fullKey = <<"v", "2", ":", "m", "y", "k", "e", "y">>
  /\ \A e, f \in Composed : Triple(e) = Triple(f) => e.fullKey = f.fullKey

\* getFullKey has been called twice with prefix "myapp", no version and
\* key "mykey" and has returned "myapp:mykey" both times
C24_Witness ==
  /\ Len(direct.composed) = 2
  /\ \A e \in Composed :
       /\ Triple(e) = << <<"m", "y", "a", "p", "p">>, <<>>,
                         <<"m", "y", "k", "e", "y">> >>
       /\ e.fullKey = <<"m", "y", "a", "p", "p", ":",
                        "m", "y", "k", "e", "y">>

HasColon(s) == \E i \in 1..Len(s) : s[i] = ":"

NoColon(e) == ~ HasColon(e.prefix) /\ ~ HasColon(e.version) /\ ~ HasColon(e.key)

\* the positions of the empty segments of a triple
EmptyAt(e) == {i \in 1..3 : Triple(e)[i] = <<>>}

\* C25 as stated: two distinct triples whose segments contain no ":" have
\* different full keys.
C25_Injective ==
  \A e, f \in Composed :
    (Triple(e) # Triple(f) /\ NoColon(e) /\ NoColon(f))
    => e.fullKey # f.fullKey

\* C25 as amended: two distinct triples whose segments contain no ":" and
\* whose empty segments are at the same positions (in particular two
\* triples without an empty segment) have different full keys.
C25_InjectiveOnSameShape ==
  \A e, f \in Composed :
    (Triple(e) # Triple(f) /\ NoColon(e) /\ NoColon(f)
       /\ EmptyAt(e) = EmptyAt(f))
    => e.fullKey # f.fullKey

\* two triples of three non-empty segments each that differ in the version
\* only have been composed to different full keys
C25_Witness ==
  \E e, f \in Composed :
    /\ Triple(e) = << <<"a", "p", "p">>, <<"v", "1">>,
                      <<"p", "o", "s", "t", "s">> >>
    /\ Triple(f) = << <<"a", "p", "p">>, <<"v", "2">>,
                      <<"p", "o", "s", "t", "s">> >>
    /\ e.fullKey # f.fullKey
    /\ NoColon(e) /\ NoColon(f)

\* the backend calls of the last instrumentation call that satisfy P
CallsWhere(tr, P(_)) == {j \in 1..Len(tr) : P(tr[j])}

\* C26: registerInitialCache makes only backend.set calls.  For null,
\* undefined and the empty array it makes no backend call and changes
\* nothing; otherwise it calls set once per item with the item's value, at
\* getFullKey(item.key) and with the item's ttl, so that the primary entry
\* of each item then holds its value; it leaves locks, fetch calls and
\* l1Cache as they were.
C26_RegisterBypassesFetch ==
  [][( /\ direct'.n = direct.n + 1
       /\ direct'.op = "registerInitialCache" )
     => LET items == direct'.items
            tr == direct'.trace
            primary(i) == FullKeyOf(prefix, version, items.list[i].key)
        IN /\ locks' = locks
           /\ calls' = calls
           /\ l1Cache' = l1Cache
           /\ \A j \in 1..Len(tr) : tr[j].op = "set"
           /\ (items.kind # "array" \/ items.list = <<>>)
                => tr = <<>> /\ store' = store
           /\ items.kind = "array"
                => \A i \in 1..Len(items.list) :
                     LET it == items.list[i]
                     IN /\ Cardinality(
                             CallsWhere(tr, LAMBDA b : b.key = primary(i))) = 1
                        /\ \A j \in 1..Len(tr) :
                             tr[j].key = primary(i)
                             => /\ tr[j].value = it.value
                                /\ tr[j].ttl =
                                     (IF "ttl" \in it.given THEN it.ttl ELSE 0)
                        /\ primary(i) \in DOMAIN store'
                        /\ store'[primary(i)].value = it.value
                        /\ store'[primary(i)].expiresAt =
                             (IF "ttl" \in it.given /\ it.ttl # 0
                              THEN now + it.ttl * 1000 ELSE 0)]_vars

\* two items have been registered while a lock was held: both primary
\* entries hold the items' values and the lock entry is still there
C26_Witness ==
  /\ direct.op = "registerInitialCache"
  /\ Len(direct.items.list) = 2
  /\ \A i \in 1..2 :
       LET fullKey == getFullKey(direct.items.list[i].key)
       IN /\ fullKey \in DOMAIN store
          /\ store[fullKey].value = direct.items.list[i].value
  /\ \E k \in DOMAIN locks : locks[k].expiresAt > now

\* C27: registerInitialCache calls set on "stale:" + fullKey for an item,
\* with the item's value and staleTtl as ttl, exactly when the item's
\* staleTtl is given, not 0 and greater than its ttl (a missing ttl
\* counting as 0); for every other item it makes no call on the stale key.
C27_RegisterStaleCopy ==
  [][( /\ direct'.n = direct.n + 1
       /\ direct'.op = "registerInitialCache"
       /\ direct'.items.kind = "array" )
     => LET list == direct'.items.list
            tr == direct'.trace
        IN \A i \in 1..Len(list) :
             LET it == list[i]
                 staleKey == <<"s", "t", "a", "l", "e", ":">>
                             \o FullKeyOf(prefix, version, it.key)
                 ttl == IF "ttl" \in it.given THEN it.ttl ELSE 0
                 wanted == /\ "staleTtl" \in it.given
                           /\ it.staleTtl > 0
                           /\ it.staleTtl > ttl
                 written == CallsWhere(tr, LAMBDA b : b.key = staleKey)
             IN /\ wanted
                     => /\ Cardinality(written) = 1
                        /\ \A j \in written :
                             /\ tr[j].op = "set"
                             /\ tr[j].value = it.value
                             /\ tr[j].ttl = it.staleTtl
                        /\ staleKey \in DOMAIN store'
                        /\ store'[staleKey].value = it.value
                        /\ store'[staleKey].expiresAt =
                             now + it.staleTtl * 1000
                /\ ~ wanted
                     => /\ written = {}
                        /\ staleKey \in DOMAIN store'
                             => /\ staleKey \in DOMAIN store
                                /\ store'[staleKey] = store[staleKey]]_vars

\* an item with staleTtl only and an item with staleTtl equal to its ttl
\* have been registered in one call: the first has a stale copy, the second
\* has none
C27_Witness ==
  /\ direct.op = "registerInitialCache"
  /\ Len(direct.items.list) = 2
  /\ direct.items.list[1].given = {"ttl", "staleTtl"}
  /\ direct.items.list[1].staleTtl = direct.items.list[1].ttl
  /\ direct.items.list[2].given = {"staleTtl"}
  /\ StaleKeyOf(getFullKey(direct.items.list[1].key)) \notin DOMAIN store
  /\ StaleKeyOf(getFullKey(direct.items.list[2].key)) \in DOMAIN store

\* names of the error classes of the package (CacheError and its subclasses)
TypedErrorNames ==
  { "CacheError", "CacheTimeoutError", "CacheConnectionError",
    "CacheLockError", "CacheSerializationError", "CacheBackendError",
    "CacheConfigError" }

\* C28: clearCache on a backend that provides clear calls it, throws
\* nothing, and afterwards every key reads absent and every lock is
\* acquirable; on a backend without clear it throws an error of one of the
\* package's error types and leaves store and locks as they were.
C28_ClearOrTypedError ==
  [][( /\ direct'.n = direct.n + 1
       /\ direct'.op = "clearCache" )
     => \/ /\ direct'.error = NoError
           /\ direct'.trace = <<BackendCall("clear", <<>>, Undefined, 0)>>
           /\ \A k \in DOMAIN store \cup DOMAIN store' :
                BackendGet(store', k, now) = Undefined
           /\ \A k \in DOMAIN locks \cup DOMAIN locks' :
                BackendLock(locks', k, now)
        \/ /\ direct'.error # NoError
           /\ direct'.error.name \in TypedErrorNames
           /\ direct'.trace = <<>>
           /\ store' = store
           /\ locks' = locks]_vars

\* the events of a call are well ordered: a call answered from l1Cache or
\* from the primary entry has emitted HIT with the full key and nothing
\* else; a call that missed has emitted MISS with the full key first, then
\* LOCK with the lock key if it acquired the lock, WAIT with the lock key
\* if the lock was busy and neither if backend.lock threw, and no MISS,
\* LOCK or WAIT after that; a call that invoked the origin had emitted LOCK
\* at that point
EventsWellOrdered(r) ==
  LET ev == r.events
      fullKey == getFullKey(r.key)
      lockKey == <<"l", "o", "c", "k", ":">> \o fullKey
  IN /\ r.initial \in {"none", "fail"} => ev = <<>>
     /\ r.initial \in {"l1", "hit"}
          => ev = <<[type |-> "HIT", key |-> fullKey]>> /\ r.origins = 0
     /\ r.initial = "miss"
          => /\ ev[1] = [type |-> "MISS", key |-> fullKey]
             /\ r.lockResult \in {"none", "fail"} => Len(ev) = 1
             /\ r.lockResult = "acquired"
                  => ev[2] = [type |-> "LOCK", key |-> lockKey]
             /\ r.lockResult = "busy"
                  => ev[2] = [type |-> "WAIT", key |-> lockKey]
             /\ \A i \in 3..Len(ev) : ev[i].type \in {"ERROR", "HIT"}
     /\ r.origins > 0
          => /\ Len(ev) >= 2
             /\ ev[2] = [type |-> "LOCK", key |-> lockKey]

\* C29: the events of every call are well ordered at every moment (see
\* EventsWellOrdered); a call that finds the primary entry of its key
\* present and unexpired ends, unless backend.get throws, with the single
\* event HIT and without invoking the origin; and a call that missed,
\* acquired the lock, met no backend failure and whose origin succeeded has
\* emitted MISS and then LOCK and nothing else.
C29_EventOrder ==
  [][\A c \in Calls :
       LET r == calls[c]
           q == calls'[c]
           fullKey == getFullKey(q.key)
       IN /\ EventsWellOrdered(q)
          /\ ( /\ r.pc \in {"idle", "get"}
               /\ q.pc # r.pc
               /\ q.initial # "fail"
               /\ BackendGet(store, fullKey, now) # Undefined )
             => /\ q.pc \in {"get", "done"}
                /\ q.pc = "done"
                     => /\ q.events = <<[type |-> "HIT", key |-> fullKey]>>
                        /\ q.origins = 0
          /\ ( /\ q.pc = "done"
               /\ q.lockResult = "acquired"
               /\ q.origin = "ok"
               /\ ~ q.faulted )
             => q.events = <<[type |-> "MISS", key |-> fullKey],
                             [type |-> "LOCK",
                              key |-> <<"l", "o", "c", "k", ":">> \o fullKey]>>]_vars

\* a first fetch of a missing key has emitted MISS then LOCK, and a second
\* fetch of the key, started after the first had returned, has emitted
\* only HIT and has not invoked the origin
C29_Witness ==
  \E c, d \in Calls :
    LET fullKey == getFullKey(calls[c].key)
    IN /\ Done(c) /\ Done(d)
       /\ calls[d].key = calls[c].key
       /\ ~ Concurrent(c, d)
       /\ c < d
       /\ calls[c].events = <<Event("MISS", fullKey),
                              Event("LOCK", LockKeyOf(fullKey))>>
       /\ calls[c].origins = 1
       /\ calls[d].events = <<Event("HIT", fullKey)>>
       /\ calls[d].origins = 0
       /\ calls[d].value = calls[c].originValue

\* the last value Date.now() takes
ClockEnd == Quantum * (MaxTicks + 1)

\* the position of a step in the course of a call
Rank(pc) ==
  CASE pc = "idle" -> 0
    [] pc = "get" -> 1
    [] pc = "lock" -> 2
    [] pc = "origin" -> 3
    [] pc = "sleep" -> 3
    [] pc = "set" -> 4
    [] pc = "staleSet" -> 5
    [] pc = "staleGet" -> 5
    [] pc = "unlock" -> 6
    [] pc = "done" -> 7

\* the steps of a call never go back: every step moves the call forward,
\* except a turn of the wait loop, which happens at least 50 ms after the
\* wait began or after the turn before it and starts another sleep only
\* before the deadline; a call with lockTimeout <= 0 that finds the lock
\* busy throws CacheTimeoutError in the step of its lock call, reading
\* nothing; a settled call has one outcome and never changes again
CallAdvances(c) ==
  LET r == calls[c]
      q == calls'[c]
  IN /\ q.pc # r.pc => Rank(q.pc) > Rank(r.pc)
     /\ (q.pc = r.pc /\ q # [r EXCEPT !.overlap = q.overlap])
          => /\ r.pc = "sleep"
             /\ now - r.sleepFrom >= 50
             /\ r.sleepFrom >= r.startTime
             /\ q.sleepFrom = now
             /\ now - r.startTime < r.lockTimeout
     /\ (r.pc = "lock" /\ q.lockResult = "busy" /\ r.lockTimeout <= 0)
          => /\ q.pc = "done"
             /\ q.ret = "error"
             /\ q.error.name = "CacheTimeoutError"
             /\ q.error.timeout = r.lockTimeout
             /\ store' = store
     /\ q.lockCalls <= 1 /\ q.origins <= 1 /\ q.setCalls <= 2
     /\ q.unlockCalls <= 1
     /\ q.pc = "done"
          => \/ q.ret = "value" /\ q.error = NoError
             \/ q.ret = "error" /\ q.error # NoError
     /\ r.pc = "done" => q = r

\* C30: every fetch call terminates with exactly one outcome when backend
\* calls and origin calls settle and time advances.  Every call that has
\* started ends, unless it waits for a deadline that lies beyond the last
\* clock value; and its steps never go back (see CallAdvances).
C30_Terminates ==
  /\ [][\A c \in Calls : CallAdvances(c)]_vars
  /\ \A c \in Calls :
       (calls[c].pc # "idle")
       ~> \/ calls[c].pc = "done"
          \/ /\ calls[c].pc = "sleep"
             /\ calls[c].startTime + calls[c].lockTimeout > ClockEnd

\* a call with lockTimeout 0 has found the lock busy and has thrown
\* CacheTimeoutError after the events MISS and WAIT, and another call has
\* timed out after polling
C30_Witness ==
  \E c, d \in Calls :
    /\ c # d
    /\ Done(c)
    /\ calls[c].lockResult = "busy"
    /\ calls[c].error.name = "CacheTimeoutError"
    /\ calls[c].error.timeout = 0
    /\ Len(calls[c].events) = 2
    /\ Done(d)
    /\ calls[d].lockResult # "busy"

\* a turn of the wait loop of call c that goes on to another sleep
NextTurn(c) == calls[c].pc = "sleep" /\ calls'[c].pc = "sleep"
                 /\ calls'[c].sleepFrom # calls[c].sleepFrom

ExpiresLater(s, p) == p # 0 /\ (s = 0 \/ s > p)

\* C32: whenever one fetch call writes both a primary entry and its stale
\* copy, the stale copy expires strictly later than the primary entry, for
\* every ttl >= 0 (ttl 0 included) and every staleTtl the call accepts:
\* when the stale write of a call succeeds and the primary entry is still
\* the one this call wrote, the expiry of the stale copy is later.
C32_StaleOutlivesPrimary ==
  [][\A c \in Calls :
       LET r == calls[c]
           q == calls'[c]
           fullKey == getFullKey(r.key)
           staleKey == <<"s", "t", "a", "l", "e", ":">> \o fullKey
       IN ( /\ r.pc = "staleSet"
            /\ q.pc # "staleSet"
            /\ q.events = r.events
            /\ fullKey \in DOMAIN store'
            /\ store'[fullKey].value = r.value )
          => /\ staleKey \in DOMAIN store'
             /\ store'[staleKey].value = r.value
             /\ ExpiresLater(store'[staleKey].expiresAt,
                             store'[fullKey].expiresAt)]_vars

\* C33: the sweep is observationally transparent.  A cleanup() changes the
\* result of no get(key) and of no lock(key, ttl) made after it: it drops
\* only store entries and lock entries that lazy expiry treats as absent.
C33_CleanupTransparent ==
  [][( /\ direct'.n = direct.n + 1
       /\ direct'.op = "cleanup" )
     => /\ Reads(store', now) = Reads(store, now)
        /\ Acquirable(locks', now) = Acquirable(locks, now)]_vars

\* C34: the lock TTL that fetch passes to backend.lock is
\* ceil(lockTimeout / 1000) seconds: the lifetime of the lock entry a call
\* acquires is a whole number of seconds, at least lockTimeout and less
\* than lockTimeout + 1000 milliseconds, and 5000 ms (5 s) for the default
\* lockTimeout of 5000 ms.
C34_LockTtlIsCeil ==
  [][\A c \in Calls :
       LET r == calls[c]
           q == calls'[c]
           lockKey == <<"l", "o", "c", "k", ":">> \o getFullKey(r.key)
       IN (r.pc = "lock" /\ q.lockResult = "acquired")
          => /\ lockKey \in DOMAIN locks'
             /\ LET life == locks'[lockKey].expiresAt - now
                IN /\ life % 1000 = 0
                   /\ life >= r.lockTimeout
                   /\ life < r.lockTimeout + 1000
                   /\ r.lockTimeout = 5000 => life = 5 * 1000]_vars

\* a call with a lockTimeout of 1001 ms holds a lock that lives 2 s, while
\* a call with the default lockTimeout has held one that lived 5 s
C34_Witness ==
  \E c, d \in Calls :
    LET lockKey == LockKeyOf(FullKey(c))
    IN /\ calls[c].pc = "origin"
       /\ calls[c].lockTimeout = 1001
       /\ lockKey \in DOMAIN locks
       /\ locks[lockKey].owner = c
       /\ locks[lockKey].expiresAt = now + 2000
       /\ calls[d].pc = "origin"
       /\ calls[d].lockTimeout = 5000
       /\ calls[d].lockExpiresAt = now + 5000

\* C35: the release of a fetch call never removes a lock entry that a
\* different fetch call acquired.  Whenever a call executes
\* backend.unlock(lockKey), the lock entry it removes, if any, is the one
\* this call created, also when its origin ran longer than the lock TTL
\* and another call acquired the lock in between.
C35_ReleaseOwnLockOnly ==
  [][\A c \in Calls :
       LET r == calls[c]
           q == calls'[c]
           lockKey == <<"l", "o", "c", "k", ":">> \o getFullKey(r.key)
       IN ( /\ r.pc = "unlock"
            /\ q.pc = "done"
            /\ lockKey \in DOMAIN locks
            /\ lockKey \notin DOMAIN locks' )
          => locks[lockKey].owner = c]_vars

\* a backend.unlock call of call c threw: the finally block logged ERROR
\* under the lock key
UnlockThrew(c) ==
  \E i \in 1..Len(calls[c].events) :
    /\ calls[c].events[i].type = "ERROR"
    /\ calls[c].events[i].key
         = <<"l", "o", "c", "k", ":">> \o getFullKey(calls[c].key)

\* C36: no lock is leaked.  In every state in which no fetch call is in
\* flight and every backend.unlock call made so far succeeded, the backend
\* holds no lock entry for any key, whatever the outcomes and the
\* interleavings of the completed calls.
C36_NoLockLeaked ==
  ( /\ \A c \in Calls : ~ InFlight(c)
    /\ \A c \in Calls : ~ UnlockThrew(c) )
  => DOMAIN locks = {}

\* two concurrent calls have ended, one had acquired the lock and its
\* origin failed, the other one timed out waiting, no unlock call threw,
\* and no lock entry is left
C36_Witness ==
  \E c, d \in Calls :
    /\ Done(c) /\ Done(d)
    /\ calls[c].lockResult = "acquired"
    /\ calls[c].origin = "fail"
    /\ calls[c].unlockCalls = 1
    /\ calls[d].lockResult = "busy"
    /\ TimedOut(d)
    /\ Concurrent(c, d)
    /\ ~ UnlockThrew(c) /\ ~ UnlockThrew(d)
    /\ DOMAIN locks = {}

\* the step is one of call c
Stepping(c) == calls'[c] # [calls[c] EXCEPT !.overlap = calls'[c].overlap]

\* map m is the same before and after the step outside the keys in own
SameOutside(m, n, own) ==
  \A k \in (DOMAIN m \cup DOMAIN n) \ own :
    k \in DOMAIN m /\ k \in DOMAIN n /\ n[k] = m[k]

\* C37: a fetch for logical key k touches only its own three backend keys.
\* No step of the call changes a store entry other than the ones under
\* fullKey(k) and "stale:" + fullKey(k), nor a lock entry other than the
\* one under "lock:" + fullKey(k).
C37_FetchFrame ==
  [][\A c \in Calls :
       LET fullKey == getFullKey(calls'[c].key)
       IN Stepping(c)
          => /\ SameOutside(store, store',
                  {fullKey, <<"s", "t", "a", "l", "e", ":">> \o fullKey})
             /\ SameOutside(locks, locks',
                  {<<"l", "o", "c", "k", ":">> \o fullKey})]_vars

\* a call for one key has run from start to end, writing its primary entry
\* and its stale copy and releasing its lock, while a call for another key
\* was executing its origin; the lock of the other call is still there
C37_Witness ==
  \E c, d \in Calls :
    /\ calls[c].key # calls[d].key
    /\ calls[c].pc = "origin"
    /\ Done(d)
    /\ c \in calls[d].overlap
    /\ calls[d].origin = "ok"
    /\ calls[d].setCalls = 2
    /\ calls[d].unlockCalls = 1
    /\ ~ calls[d].faulted
    /\ FullKey(d) \in DOMAIN store
    /\ StaleKeyOf(FullKey(d)) \in DOMAIN store
    /\ LockKeyOf(FullKey(d)) \notin DOMAIN locks
    /\ LockKeyOf(FullKey(c)) \in DOMAIN locks
    /\ locks[LockKeyOf(FullKey(c))].owner = c

\* two compositions made by one handler
SameHandler(e, f) == e.prefix = f.prefix /\ e.version = f.version

\* neither derived key of composition e is the full key of composition f
NoAlias(e, f) ==
  /\ StaleKeyOf(e.fullKey) # f.fullKey
  /\ LockKeyOf(e.fullKey) # f.fullKey

\* C38 as stated: derived keys never alias primary keys within one
\* handler.  For every two logical keys k and k' of one handler, whatever
\* its prefix and version, neither "stale:" + fullKey(k) nor
\* "lock:" + fullKey(k) equals fullKey(k').
C38_NoAlias ==
  \A e, f \in Composed : SameHandler(e, f) => NoAlias(e, f)

\* C38 as amended: for every two non-empty logical keys k and k' of one
\* handler, when neither they nor the prefix and the version contain the
\* delimiter, neither "stale:" + fullKey(k) nor "lock:" + fullKey(k)
\* equals fullKey(k').
C38_NoAliasWithoutDelimiter ==
  \A e, f \in Composed :
    ( /\ SameHandler(e, f)
      /\ NoColon(e) /\ NoColon(f)
      /\ e.key # <<>> /\ f.key # <<>> )
    => NoAlias(e, f)

\* a handler without prefix and version has composed the full keys of two
\* different non-empty logical keys without delimiter
C38_Witness ==
  \E e, f \in Composed :
    /\ SameHandler(e, f)
    /\ e.prefix = <<>> /\ e.version = <<>>
    /\ NoColon(e) /\ NoColon(f)
    /\ e.key # <<>> /\ f.key # <<>> /\ e.key # f.key
    /\ e.fullKey = e.key /\ f.fullKey = f.key

=============================================================================
